---- MODULE Spec2Model ----
(***************************************************************************)
(* A model of the chess rules engine (engine.py, pieces.py, config.py) and *)
(* of the GUI's use of it.  Coordinates are <<row, col>> with row 0 the    *)
(* eighth rank, as in the source.  A piece object is the record of its     *)
(* fields name, is_player1 and has_moved; an empty square holds None.      *)
(* Wall-clock fields (turn_start_time, turn durations) are not modelled.   *)
(* A Python string is the sequence of its characters, each a string of     *)
(* length one; Python's None in place of a string is PyNone.               *)
(***************************************************************************)
EXTENDS Integers, Sequences, FiniteSets, TLC

VARIABLES board, current_player_index, game_state, move_history,
          white_captured, black_captured, halfmove_clock, position_history,
          last_call, positions, streak, made,
          white_player, black_player, ai_is_thinking, ai_move_result,
          ai_thread, crashed

vars == <<board, current_player_index, game_state, move_history,
          white_captured, black_captured, halfmove_clock, position_history,
          last_call, positions, streak, made,
          white_player, black_player, ai_is_thinking, ai_move_result,
          ai_thread, crashed>>

\* The fields of ChessGUI about the players and the AI worker, the worker
\* thread, and whether the main loop has died of an uncaught exception.
gui_vars == <<white_player, black_player, ai_is_thinking, ai_move_result,
              ai_thread, crashed>>

\* ------------------------------------------------------------- config.py
BOARD_DIMENSION == 8

Rows == 0 .. (BOARD_DIMENSION - 1)

Squares == Rows \X Rows

\* The index of a Python list of BOARD_DIMENSION items that i stands for,
\* for i from -BOARD_DIMENSION to BOARD_DIMENSION - 1.
PyIndex(i) == IF i < 0 THEN i + BOARD_DIMENSION ELSE i

InBoard(r, c) == 0 <= r /\ r < BOARD_DIMENSION /\ 0 <= c /\ c < BOARD_DIMENSION

PIECE_SYMBOLS(white, name) ==
    IF white THEN name
    ELSE CASE name = "K" -> "k" [] name = "Q" -> "q" [] name = "R" -> "r"
           [] name = "B" -> "b" [] name = "N" -> "n" [] name = "P" -> "p"

\* ------------------------------------------------------------- pieces.py
None == [name |-> "-", is_player1 |-> FALSE, has_moved |-> FALSE]

Piece(name, is_player1) ==
    [name |-> name, is_player1 |-> is_player1, has_moved |-> FALSE]

color(p) == IF p.is_player1 THEN "white" ELSE "black"

is_enemy(self, other) == other # None /\ other.is_player1 # self.is_player1

Abs(n) == IF n < 0 THEN -n ELSE n

\* The last entry of the history is a pawn move of two rows.
LastIsDoubleStep(history) ==
    /\ Len(history) > 0
    /\ history[Len(history)].piece_moved.name = "P"
    /\ Abs(history[Len(history)].start_coords[1]
           - history[Len(history)].end_coords[1]) = 2

\* One ray of _get_sliding_moves, from step i on.
RECURSIVE SlideFrom(_, _, _, _, _, _, _)
SlideFrom(b, self, row, col, dr, dc, i) ==
    LET new_row == row + i * dr
        new_col == col + i * dc
    IN  IF i >= BOARD_DIMENSION \/ ~InBoard(new_row, new_col) THEN {}
        ELSE IF b[new_row][new_col] = None
             THEN {<<new_row, new_col>>}
                    \cup SlideFrom(b, self, row, col, dr, dc, i + 1)
        ELSE IF is_enemy(self, b[new_row][new_col])
             THEN {<<new_row, new_col>>}
        ELSE {}

_get_sliding_moves(b, self, start_coords, directions) ==
    UNION { SlideFrom(b, self, start_coords[1], start_coords[2],
                      d[1], d[2], 1) : d \in directions }

RookDirections == {<<0, 1>>, <<0, -1>>, <<1, 0>>, <<-1, 0>>}

BishopDirections == {<<1, 1>>, <<1, -1>>, <<-1, 1>>, <<-1, -1>>}

KnightOffsets == {<<-2, -1>>, <<-2, 1>>, <<-1, -2>>, <<-1, 2>>,
                  <<1, -2>>, <<1, 2>>, <<2, -1>>, <<2, 1>>}

PawnMoves(b, self, start_coords, history) ==
    LET row == start_coords[1]
        col == start_coords[2]
        direction == IF self.is_player1 THEN -1 ELSE 1
        one_step_row == row + direction
        two_step_row == row + 2 * direction
        one == IF InBoard(one_step_row, col) /\ b[one_step_row][col] = None
               THEN {<<one_step_row, col>>} ELSE {}
        two == IF /\ one # {}
                  /\ ~self.has_moved
                  /\ InBoard(two_step_row, col)
                  /\ b[two_step_row][col] = None
               THEN {<<two_step_row, col>>} ELSE {}
        caps == { <<row + direction, col + dc>> : dc \in
                    { d \in {-1, 1} :
                        /\ InBoard(row + direction, col + d)
                        /\ is_enemy(self, b[row + direction][col + d]) } }
        last_move == history[Len(history)]
        ep == IF /\ LastIsDoubleStep(history)
                 /\ last_move.end_coords[1] = row
                 /\ Abs(last_move.end_coords[2] - col) = 1
              THEN {<<row + direction, last_move.end_coords[2]>>} ELSE {}
    IN  one \cup two \cup caps \cup ep

KnightMoves(b, self, start_coords) ==
    { <<start_coords[1] + d[1], start_coords[2] + d[2]>> : d \in
        { o \in KnightOffsets :
            /\ InBoard(start_coords[1] + o[1], start_coords[2] + o[2])
            /\ LET target == b[start_coords[1] + o[1]][start_coords[2] + o[2]]
               IN  target = None \/ is_enemy(self, target) } }

\* King.get_moves: the adjacent squares, and for a king that has not moved
\* the two castling proposals, two columns to either side.
KingMoves(b, self, start_coords) ==
    LET row == start_coords[1]
        col == start_coords[2]
        steps == { <<row + d[1], col + d[2]>> : d \in
                     { o \in ({-1, 0, 1} \X {-1, 0, 1}) \ {<<0, 0>>} :
                         /\ InBoard(row + o[1], col + o[2])
                         /\ LET target == b[row + o[1]][col + o[2]]
                            IN  target = None \/ is_enemy(self, target) } }
        castle == IF ~self.has_moved
                  THEN {<<row, col + 2>>, <<row, col - 2>>} ELSE {}
    IN  steps \cup castle

\* piece.get_moves(board, start_coords, move_history), by the piece's class.
get_moves(b, start_coords, history) ==
    LET self == b[PyIndex(start_coords[1])][PyIndex(start_coords[2])]
    IN  CASE self.name = "P" -> PawnMoves(b, self, start_coords, history)
          [] self.name = "R" ->
                 _get_sliding_moves(b, self, start_coords, RookDirections)
          [] self.name = "N" -> KnightMoves(b, self, start_coords)
          [] self.name = "B" ->
                 _get_sliding_moves(b, self, start_coords, BishopDirections)
          [] self.name = "Q" ->
                 _get_sliding_moves(b, self, start_coords,
                                    RookDirections \cup BishopDirections)
          [] self.name = "K" -> KingMoves(b, self, start_coords)
          [] OTHER -> {}

\* -------------------------------------------------------------- engine.py
\* Move(piece_moved, start_coords, end_coords, piece_captured, is_promotion,
\*      promoted_piece, piece_had_moved, is_castling, is_en_passant)
Move(piece_moved, start_coords, end_coords, piece_captured, is_promotion, promoted_piece, piece_had_moved, is_castling, is_en_passant) ==
    [piece_moved |-> piece_moved, start_coords |-> start_coords,
     end_coords |-> end_coords, piece_captured |-> piece_captured,
     is_promotion |-> is_promotion, promoted_piece |-> promoted_piece,
     piece_had_moved |-> piece_had_moved, is_castling |-> is_castling,
     is_en_passant |-> is_en_passant]

\* board[r][c] of Python lists: a negative index counts from the end.
get_piece_at(b, coords) == b[PyIndex(coords[1])][PyIndex(coords[2])]

set_piece_at(b, coords, piece) ==
    [b EXCEPT ![PyIndex(coords[1])][PyIndex(coords[2])] = piece]

\* get_current_player().is_player1
CurrentIsWhite(G) == G.current_player_index = 0

\* The squares in the order of _iterate_squares.
SquareIndex(coords) == coords[1] * BOARD_DIMENSION + coords[2]

\* A placement with the king and queen of each side exchanged.
_place_pieces_KingOnQueenFile ==
    LET piece_order == <<"R", "N", "B", "K", "Q", "B", "N", "R">>
    IN  [r \in Rows |-> [c \in Rows |->
            CASE r = 0 -> [name |-> piece_order[c + 1], is_player1 |-> FALSE,
                           has_moved |-> FALSE]
              [] r = 1 -> [name |-> "P", is_player1 |-> FALSE,
                           has_moved |-> FALSE]
              [] r = 6 -> [name |-> "P", is_player1 |-> TRUE,
                           has_moved |-> FALSE]
              [] r = 7 -> [name |-> piece_order[c + 1], is_player1 |-> TRUE,
                           has_moved |-> FALSE]
              [] OTHER -> [name |-> "-", is_player1 |-> FALSE,
                           has_moved |-> FALSE]]]

_place_pieces ==
    LET piece_order == <<"R", "N", "B", "Q", "K", "B", "N", "R">>
    IN  [r \in Rows |-> [c \in Rows |->
            CASE r = 0 -> Piece(piece_order[c + 1], FALSE)
              [] r = 1 -> Piece("P", FALSE)
              [] r = 6 -> Piece("P", TRUE)
              [] r = 7 -> Piece(piece_order[c + 1], TRUE)
              [] OTHER -> None]]

NoCoords == <<-1, -1>>

\* The first square, in iteration order, holding a piece of that class and
\* owner; NoCoords for Python's None.
_find_piece_by_type(b, name, is_player1) ==
    LET found == { s \in Squares : /\ get_piece_at(b, s).name = name
                                   /\ get_piece_at(b, s).is_player1 = is_player1 }
    IN  IF found = {} THEN NoCoords
        ELSE CHOOSE s \in found :
                 \A t \in found : SquareIndex(s) <= SquareIndex(t)

_is_square_attacked(b, history, coords, by_player_is_white) ==
    \E s \in Squares :
        /\ get_piece_at(b, s) # None
        /\ get_piece_at(b, s).is_player1 = by_player_is_white
        /\ coords \in get_moves(b, s, history)

is_in_check(b, history, player_is_white) ==
    LET king_pos == _find_piece_by_type(b, "K", player_is_white)
    IN  IF king_pos # NoCoords
        THEN _is_square_attacked(b, history, king_pos, ~player_is_white)
        ELSE FALSE

\* The board while _move_results_in_check tests the king.
SimulatedBoard(b, start_coords, end_coords) ==
    set_piece_at(set_piece_at(b, end_coords, get_piece_at(b, start_coords)),
                 start_coords, None)

\* A simulation that empties the destination when it is over.
RestoredBoard_DropsCaptured(b, start_coords, end_coords) ==
    set_piece_at(set_piece_at(SimulatedBoard(b, start_coords, end_coords),
                              start_coords, get_piece_at(b, start_coords)),
                 end_coords, None)

\* The board when _move_results_in_check returns: the piece is put back on
\* the origin and what stood on the destination on the destination.
RestoredBoard(b, start_coords, end_coords) ==
    set_piece_at(set_piece_at(SimulatedBoard(b, start_coords, end_coords),
                              start_coords, get_piece_at(b, start_coords)),
                 end_coords, get_piece_at(b, end_coords))

_move_results_in_check(G, start_coords, end_coords) ==
    is_in_check(SimulatedBoard(G.board, start_coords, end_coords),
                G.move_history, CurrentIsWhite(G))

_get_castling_moves(G, king_coords) ==
    LET row == king_coords[1]
        b == G.board
        player_is_white == CurrentIsWhite(G)
        rook_kingside == get_piece_at(b, <<row, 7>>)
        rook_queenside == get_piece_at(b, <<row, 0>>)
        kingside ==
            IF /\ rook_kingside.name = "R" /\ ~rook_kingside.has_moved
               /\ get_piece_at(b, <<row, 5>>) = None
               /\ get_piece_at(b, <<row, 6>>) = None
               /\ ~_is_square_attacked(b, G.move_history, <<row, 5>>,
                                       ~player_is_white)
               /\ ~_is_square_attacked(b, G.move_history, <<row, 6>>,
                                       ~player_is_white)
            THEN {<<row, 6>>} ELSE {}
        queenside ==
            IF /\ rook_queenside.name = "R" /\ ~rook_queenside.has_moved
               /\ get_piece_at(b, <<row, 1>>) = None
               /\ get_piece_at(b, <<row, 2>>) = None
               /\ get_piece_at(b, <<row, 3>>) = None
               /\ ~_is_square_attacked(b, G.move_history, <<row, 2>>,
                                       ~player_is_white)
               /\ ~_is_square_attacked(b, G.move_history, <<row, 3>>,
                                       ~player_is_white)
            THEN {<<row, 2>>} ELSE {}
    IN  IF is_in_check(b, G.move_history, player_is_white) THEN {}
        ELSE kingside \cup queenside

\* The candidates before the king-safety filter.
PseudoLegalMoves(G, coords) ==
    get_moves(G.board, coords, G.move_history)
      \cup (IF get_piece_at(G.board, coords).name = "K"
            THEN _get_castling_moves(G, coords) ELSE {})

get_legal_moves_for_piece(G, coords) ==
    IF get_piece_at(G.board, coords) = None THEN {}
    ELSE { move_coords \in PseudoLegalMoves(G, coords) :
             ~_move_results_in_check(G, coords, move_coords) }

\* The board after the simulations of the candidates, one after the other.
RECURSIVE SimulateAll(_, _, _)
SimulateAll(b, start_coords, ends) ==
    IF ends = {} THEN b
    ELSE LET e == CHOOSE x \in ends : TRUE
         IN  SimulateAll(RestoredBoard(b, start_coords, e), start_coords,
                         ends \ {e})

\* The board get_legal_moves_for_piece leaves behind.
BoardAfterLegalMoves(G, coords) ==
    IF get_piece_at(G.board, coords) = None THEN G.board
    ELSE SimulateAll(G.board, coords, PseudoLegalMoves(G, coords))

\* One square's part of the position hash: name and first letter of the
\* colour, or a blank.
HashCell(p) ==
    IF p = None THEN " "
    ELSE p.name \o (IF p.is_player1 THEN "w" ELSE "b")

RECURSIVE BoardStr(_, _)
BoardStr(b, i) ==
    IF i >= BOARD_DIMENSION * BOARD_DIMENSION THEN ""
    ELSE HashCell(b[i \div BOARD_DIMENSION][i % BOARD_DIMENSION])
           \o BoardStr(b, i + 1)

_get_position_hash(G) ==
    BoardStr(G.board, 0) \o ToString(G.current_player_index)

\* position_history.get(h, 0)
HistoryCount(ph, h) == IF h \in DOMAIN ph THEN ph[h] ELSE 0

\* A position history that records a position without counting it.
_update_position_history_Overwrite(G) ==
    LET pos_hash == _get_position_hash(G)
    IN  [G EXCEPT !.position_history =
            IF pos_hash \in DOMAIN @ THEN [@ EXCEPT ![pos_hash] = 1]
            ELSE @ @@ (pos_hash :> 1)]

_update_position_history(G) ==
    LET pos_hash == _get_position_hash(G)
        n == HistoryCount(G.position_history, pos_hash) + 1
    IN  [G EXCEPT !.position_history =
            IF pos_hash \in DOMAIN @ THEN [@ EXCEPT ![pos_hash] = n]
            ELSE @ @@ (pos_hash :> n)]

\* A material test that knows the bare kings only.
_check_insufficient_material_KingsOnly(G) ==
    Cardinality({ s \in Squares : get_piece_at(G.board, s) # None }) = 2

_check_insufficient_material(G) ==
    LET pieces == { s \in Squares : get_piece_at(G.board, s) # None }
        piece_names == { get_piece_at(G.board, s).name : s \in pieces }
    IN  \/ Cardinality(pieces) = 2
        \/ /\ Cardinality(pieces) = 3
           /\ ("B" \in piece_names \/ "N" \in piece_names)

has_legal_move(G) ==
    \E s \in Squares :
        /\ get_piece_at(G.board, s) # None
        /\ get_piece_at(G.board, s).is_player1 = CurrentIsWhite(G)
        /\ get_legal_moves_for_piece(G, s) # {}

\* A status that calls every position without a legal move a checkmate.
_update_game_status_NoStalemate(G) ==
    [G EXCEPT !.game_state =
        IF G.halfmove_clock >= 100 THEN "draw by 50-move rule"
        ELSE IF HistoryCount(G.position_history, _get_position_hash(G)) >= 3
             THEN "draw by threefold repetition"
        ELSE IF _check_insufficient_material(G)
             THEN "draw by insufficient material"
        ELSE IF ~has_legal_move(G) THEN "checkmate"
        ELSE (IF is_in_check(G.board, G.move_history, CurrentIsWhite(G))
              THEN "check" ELSE "active")]

\* A status that looks for mate and stalemate before the draw rules.
_update_game_status_MateFirst(G) ==
    [G EXCEPT !.game_state =
        IF ~has_legal_move(G)
        THEN (IF is_in_check(G.board, G.move_history, CurrentIsWhite(G))
              THEN "checkmate" ELSE "stalemate")
        ELSE IF G.halfmove_clock >= 100 THEN "draw by 50-move rule"
        ELSE IF HistoryCount(G.position_history, _get_position_hash(G)) >= 3
             THEN "draw by threefold repetition"
        ELSE IF _check_insufficient_material(G)
             THEN "draw by insufficient material"
        ELSE (IF is_in_check(G.board, G.move_history, CurrentIsWhite(G))
              THEN "check" ELSE "active")]

_update_game_status(G) ==
    [G EXCEPT !.game_state =
        IF G.halfmove_clock >= 100 THEN "draw by 50-move rule"
        ELSE IF HistoryCount(G.position_history, _get_position_hash(G)) >= 3
             THEN "draw by threefold repetition"
        ELSE IF _check_insufficient_material(G)
             THEN "draw by insufficient material"
        ELSE IF ~has_legal_move(G)
             THEN (IF is_in_check(G.board, G.move_history, CurrentIsWhite(G))
                   THEN "checkmate" ELSE "stalemate")
        ELSE (IF is_in_check(G.board, G.move_history, CurrentIsWhite(G))
              THEN "check" ELSE "active")]

\* A promotion that ignores the choice.
PromotedClass_AlwaysQueen(promotion_choice) == "Q"

\* piece_map.get(promotion_choice, Queen)
PromotedClass(promotion_choice) ==
    IF promotion_choice \in {"Q", "R", "B", "N"} THEN promotion_choice
    ELSE "Q"

\* A halfmove clock that restarts at one instead of counting on.
NextHalfmoveClock_Restart(piece, captured_piece, clock) ==
    IF piece.name = "P" \/ captured_piece # None THEN 0 ELSE 1

\* A clock that only a pawn move resets.
NextHalfmoveClock_PawnOnly(piece, captured_piece, clock) ==
    IF piece.name = "P" THEN 0 ELSE clock + 1

\* The halfmove clock after a move of piece onto a square holding
\* captured_piece.
NextHalfmoveClock(piece, captured_piece, clock) ==
    IF piece.name = "P" \/ captured_piece # None THEN 0 ELSE clock + 1

\* An en passant capture that takes what stands on the destination.
CapturedPawnSquare_Destination(start_coords, end_coords) == end_coords

\* The square of the pawn an en passant capture removes:
\* (captured_pawn_row, captured_pawn_col).
CapturedPawnSquare(start_coords, end_coords) ==
    <<start_coords[1], end_coords[2]>>

\* The game after _execute_board_move, and the Move it returns.
_execute_board_move(G, start_coords, end_coords, promotion_choice) ==
    LET piece == get_piece_at(G.board, start_coords)
        at_end == get_piece_at(G.board, end_coords)
        clock == NextHalfmoveClock(piece, at_end, G.halfmove_clock)
        row == start_coords[1]
        is_castling == piece.name = "K"
                         /\ Abs(start_coords[2] - end_coords[2]) = 2
        is_en_passant == /\ ~is_castling
                         /\ piece.name = "P"
                         /\ start_coords[2] # end_coords[2]
                         /\ at_end = None
        rook_start_col == IF end_coords[2] > start_coords[2] THEN 7 ELSE 0
        rook_end_col == IF rook_start_col = 7 THEN 5 ELSE 3
        rook == get_piece_at(G.board, <<row, rook_start_col>>)
        rook_moved == IF rook # None THEN [rook EXCEPT !.has_moved = TRUE]
                      ELSE rook
        b1 == IF is_castling
              THEN set_piece_at(
                     set_piece_at(G.board, <<row, rook_end_col>>, rook_moved),
                     <<row, rook_start_col>>, None)
              ELSE IF is_en_passant
              THEN set_piece_at(G.board,
                     CapturedPawnSquare(start_coords, end_coords), None)
              ELSE G.board
        \* The captured object; when it is the relocated rook or the moving
        \* piece itself, it carries the has_moved flag set on that object.
        captured_piece ==
            IF is_en_passant
            THEN get_piece_at(G.board,
                     CapturedPawnSquare(start_coords, end_coords))
            ELSE IF is_castling /\ end_coords = <<row, rook_start_col>>
            THEN rook_moved
            ELSE IF end_coords = start_coords
            THEN [piece EXCEPT !.has_moved = TRUE]
            ELSE at_end
        is_promotion == piece.name = "P" /\ end_coords[1] \in {0, 7}
        promoted_piece == IF is_promotion
                          THEN Piece(PromotedClass(promotion_choice),
                                     piece.is_player1)
                          ELSE None
        b2 == set_piece_at(b1, end_coords,
                           IF is_promotion THEN promoted_piece
                           ELSE [piece EXCEPT !.has_moved = TRUE])
        b3 == set_piece_at(b2, start_coords, None)
    IN  [G |-> [G EXCEPT
                  !.board = b3,
                  !.halfmove_clock = clock,
                  !.black_captured =
                      IF captured_piece # None /\ piece.is_player1
                      THEN Append(@, captured_piece) ELSE @,
                  !.white_captured =
                      IF captured_piece # None /\ ~piece.is_player1
                      THEN Append(@, captured_piece) ELSE @],
         move |-> Move([piece EXCEPT !.has_moved = TRUE], start_coords,
                       end_coords, captured_piece,
                       is_promotion, promoted_piece, piece.has_moved,
                       is_castling, is_en_passant)]

\* An update after the move that records the move and leaves the turn with
\* the side that moved.
_update_game_after_move_KeepsSide(G, move) ==
    _update_game_status(
        _update_position_history([G EXCEPT !.move_history = Append(@, move)]))

_update_game_after_move(G, move) ==
    _update_game_status(
        _update_position_history(
            [G EXCEPT !.move_history = Append(@, move),
                      !.current_player_index = 1 - @]))

\* An acceptance test that forgets whose turn it is.
MoveAccepted_AnyOwner(G, start_coords) ==
    get_piece_at(G.board, start_coords) # None

\* make_move accepts the call: a piece is on start and it belongs to the
\* side to move.
MoveAccepted(G, start_coords) ==
    /\ get_piece_at(G.board, start_coords) # None
    /\ get_piece_at(G.board, start_coords).is_player1 = CurrentIsWhite(G)

\* A make_move that validates the destination against the legal moves.
make_move_Validating(G, start_coords, end_coords, promotion_choice) ==
    IF \/ get_piece_at(G.board, start_coords) = None
       \/ get_piece_at(G.board, start_coords).is_player1 # CurrentIsWhite(G)
       \/ end_coords \notin get_legal_moves_for_piece(G, start_coords)
    THEN [ret |-> FALSE, G |-> G]
    ELSE LET x == _execute_board_move(G, start_coords, end_coords,
                                      promotion_choice)
         IN  [ret |-> TRUE, G |-> _update_game_after_move(x.G, x.move)]

\* A make_move that refuses to move once the game is over.
make_move_GameOverGuard(G, start_coords, end_coords, promotion_choice) ==
    IF \/ get_piece_at(G.board, start_coords) = None
       \/ get_piece_at(G.board, start_coords).is_player1 # CurrentIsWhite(G)
       \/ G.game_state \notin {"active", "check"}
    THEN [ret |-> FALSE, G |-> G]
    ELSE LET x == _execute_board_move(G, start_coords, end_coords,
                                      promotion_choice)
         IN  [ret |-> TRUE, G |-> _update_game_after_move(x.G, x.move)]

\* The return value and the game after make_move.
make_move(G, start_coords, end_coords, promotion_choice) ==
    IF ~MoveAccepted(G, start_coords) THEN [ret |-> FALSE, G |-> G]
    ELSE LET x == _execute_board_move(G, start_coords, end_coords,
                                      promotion_choice)
         IN  [ret |-> TRUE, G |-> _update_game_after_move(x.G, x.move)]

\* undo_last_move on a history that is not empty.
UndoPop(G) ==
    LET move == G.move_history[Len(G.move_history)]
        row == move.start_coords[1]
        b0 == set_piece_at(G.board, move.start_coords,
                           [move.piece_moved EXCEPT
                               !.has_moved = move.piece_had_moved])
        rook_start_col == IF move.end_coords[2] > move.start_coords[2]
                          THEN 7 ELSE 0
        rook_end_col == IF rook_start_col = 7 THEN 5 ELSE 3
        rook == get_piece_at(b0, <<row, rook_end_col>>)
        rook_back == IF rook # None THEN [rook EXCEPT !.has_moved = FALSE]
                     ELSE rook
        b1 == IF move.is_castling
              THEN set_piece_at(
                     set_piece_at(
                       set_piece_at(b0, <<row, rook_start_col>>, rook_back),
                       <<row, rook_end_col>>, None),
                     move.end_coords, None)
              ELSE IF move.is_en_passant
              THEN set_piece_at(
                     set_piece_at(b0, <<row, move.end_coords[2]>>,
                                  move.piece_captured),
                     move.end_coords, None)
              ELSE set_piece_at(b0, move.end_coords,
                     IF move.end_coords = move.start_coords
                     THEN get_piece_at(b0, move.start_coords)
                     ELSE move.piece_captured)
    IN  _update_game_status(
          [G EXCEPT
             !.move_history = SubSeq(@, 1, Len(@) - 1),
             !.board = b1,
             !.black_captured =
                 IF move.piece_captured # None /\ move.piece_moved.is_player1
                 THEN SubSeq(@, 1, Len(@) - 1) ELSE @,
             !.white_captured =
                 IF move.piece_captured # None /\ ~move.piece_moved.is_player1
                 THEN SubSeq(@, 1, Len(@) - 1) ELSE @,
             !.current_player_index = 1 - @])

\* An undo that takes the undone move off the halfmove clock and the undone
\* position off the position history.
undo_last_move_RollsBack(G) ==
    IF Len(G.move_history) = 0 THEN G
    ELSE LET pos_hash == _get_position_hash(G)
         IN  [UndoPop(G) EXCEPT
                !.halfmove_clock = IF @ > 0 THEN @ - 1 ELSE 0,
                !.position_history = [@ EXCEPT ![pos_hash] = @ - 1]]

\* An undo that recomputes the status before looking at the history.
undo_last_move_StatusFirst(G) ==
    IF Len(G.move_history) = 0 THEN _update_game_status(G) ELSE UndoPop(G)

\* undo_last_move: the game after the call.
undo_last_move(G) ==
    IF Len(G.move_history) = 0 THEN G ELSE UndoPop(G)

resign(G) ==
    [G EXCEPT !.game_state =
        IF G.current_player_index = 0 THEN "resignation - Black wins"
        ELSE "resignation - White wins"]

offer_draw(G) == [G EXCEPT !.game_state = "draw by agreement"]

\* Game.__init__
NewGame ==
    _update_position_history(
        [board |-> _place_pieces, current_player_index |-> 0,
         game_state |-> "active", move_history |-> <<>>,
         white_captured |-> <<>>, black_captured |-> <<>>,
         halfmove_clock |-> 0, position_history |-> <<>>])

\* One row of the piece placement field, from column c on, with the run of
\* empty squares counted so far.
RECURSIVE FenRow(_, _, _, _)
FenRow(b, r, c, empty_squares) ==
    IF c >= BOARD_DIMENSION
    THEN (IF empty_squares > 0 THEN ToString(empty_squares) ELSE "")
    ELSE IF b[r][c] # None
    THEN (IF empty_squares > 0 THEN ToString(empty_squares) ELSE "")
           \o PIECE_SYMBOLS(b[r][c].is_player1, b[r][c].name)
           \o FenRow(b, r, c + 1, 0)
    ELSE FenRow(b, r, c + 1, empty_squares + 1)

RECURSIVE FenBoard(_, _)
FenBoard(b, r) ==
    IF r >= BOARD_DIMENSION THEN ""
    ELSE FenRow(b, r, 0, 0)
           \o (IF r < BOARD_DIMENSION - 1 THEN "/" ELSE "")
           \o FenBoard(b, r + 1)

\* A castling right of to_fen: an unmoved King and an unmoved Rook on their
\* canonical squares.
CastlingRight(b, king_sq, rook_sq) ==
    /\ get_piece_at(b, king_sq).name = "K"
    /\ ~get_piece_at(b, king_sq).has_moved
    /\ get_piece_at(b, rook_sq).name = "R"
    /\ ~get_piece_at(b, rook_sq).has_moved

FenCastling(b) ==
    LET rights ==
            (IF CastlingRight(b, <<7, 4>>, <<7, 7>>) THEN "K" ELSE "")
         \o (IF CastlingRight(b, <<7, 4>>, <<7, 0>>) THEN "Q" ELSE "")
         \o (IF CastlingRight(b, <<0, 4>>, <<0, 7>>) THEN "k" ELSE "")
         \o (IF CastlingRight(b, <<0, 4>>, <<0, 0>>) THEN "q" ELSE "")
    IN  IF rights = "" THEN "-" ELSE rights

FileLetter(col) == <<"a", "b", "c", "d", "e", "f", "g", "h">>[col + 1]

\* An en-passant field that names the square the pawn landed on.
FenEnPassant_Landing(history) ==
    IF LastIsDoubleStep(history)
    THEN LET last_move == history[Len(history)]
         IN  FileLetter(last_move.end_coords[2])
               \o ToString(8 - last_move.end_coords[1])
    ELSE "-"

FenEnPassant(history) ==
    IF LastIsDoubleStep(history)
    THEN LET last_move == history[Len(history)]
             target_row == (last_move.start_coords[1]
                            + last_move.end_coords[1]) \div 2
         IN  FileLetter(last_move.start_coords[2]) \o ToString(8 - target_row)
    ELSE "-"

\* The six fields of to_fen.
FenFields(G) ==
    [placement |-> FenBoard(G.board, 0),
     active_color |-> IF G.current_player_index = 0 THEN "w" ELSE "b",
     castling_rights |-> FenCastling(G.board),
     en_passant_target |-> FenEnPassant(G.move_history),
     halfmove_clock |-> ToString(G.halfmove_clock),
     fullmove_number |-> ToString(Len(G.move_history) \div 2 + 1)]

to_fen(G) ==
    LET f == FenFields(G)
    IN  f.placement \o " " \o f.active_color \o " " \o f.castling_rights
          \o " " \o f.en_passant_target \o " " \o f.halfmove_clock
          \o " " \o f.fullmove_number

\* ----------------------------------------------------------- state machine
\* The Game object as a record of its fields.
Game ==
    [board |-> board, current_player_index |-> current_player_index,
     game_state |-> game_state, move_history |-> move_history,
     white_captured |-> white_captured, black_captured |-> black_captured,
     halfmove_clock |-> halfmove_clock, position_history |-> position_history]

SetGame(G) ==
    /\ board' = G.board
    /\ current_player_index' = G.current_player_index
    /\ game_state' = G.game_state
    /\ move_history' = G.move_history
    /\ white_captured' = G.white_captured
    /\ black_captured' = G.black_captured
    /\ halfmove_clock' = G.halfmove_clock
    /\ position_history' = G.position_history

engine_vars == <<board, current_player_index, game_state, move_history,
                 white_captured, black_captured, halfmove_clock,
                 position_history>>

\* The last call made on the Game and what it returned.
Call(op, start_coords, end_coords, ret) ==
    [op |-> op, start_coords |-> start_coords, end_coords |-> end_coords,
     ret |-> ret]

\* Kind and colour on every square, and the side to move.
Layout(G) ==
    [b |-> [r \in Rows |-> [c \in Rows |->
               <<G.board[r][c].name, G.board[r][c].is_player1>>]],
     side |-> G.current_player_index]

PieceCount(b) == Cardinality({ s \in Squares : get_piece_at(b, s) # None })

\* Bounds of the exploration: the successful make_move calls of a run under
\* Spec and under SpecBook, and the length of the free knight play.
MaxMoves == 2

MaxBookMoves == 106

MaxShuffle == 9

\* Python's None where a string is expected.
PyNone == <<"None">>

\* No worker thread is running.
NoThread == [pc |-> "none", fen |-> ""]

\* ChessGUI.__init__ with two human players; the Game is new.
Init ==
    /\ white_player = "human"
    /\ black_player = "human"
    /\ ai_is_thinking = FALSE
    /\ ai_move_result = PyNone
    /\ ai_thread = NoThread
    /\ crashed = FALSE
    /\ board = NewGame.board
    /\ current_player_index = NewGame.current_player_index
    /\ game_state = NewGame.game_state
    /\ move_history = NewGame.move_history
    /\ white_captured = NewGame.white_captured
    /\ black_captured = NewGame.black_captured
    /\ halfmove_clock = NewGame.halfmove_clock
    /\ position_history = NewGame.position_history
    /\ last_call = Call("new", NoCoords, NoCoords, TRUE)
    /\ positions = <<Layout(NewGame)>>
    /\ streak = 0
    /\ made = 0

\* What the callers pass as promotion_choice: a key of the promotion prompt,
\* nothing (Python's None), or a value that names no kind.
PromotionChoices == {"Q", "R", "B", "N", "none", "X"}

ChoicesFor(G, start_coords, end_coords) ==
    IF get_piece_at(G.board, start_coords).name = "P"
         /\ end_coords[1] \in {0, 7}
    THEN PromotionChoices ELSE {"none"}

\* The bookkeeping of a make_move call: the call and its result, and the
\* observers of the sequence of moves.
RecordCall(start_coords, end_coords, r) ==
    /\ SetGame(r.G)
    /\ last_call' = Call("make_move", start_coords, end_coords, r.ret)
    /\ made' = IF r.ret THEN made + 1 ELSE made
    /\ positions' = IF r.ret /\ positions # <<>>
                    THEN Append(positions, Layout(r.G)) ELSE positions
    /\ streak' = IF ~r.ret THEN streak
                 ELSE IF get_piece_at(board, start_coords).name = "P"
                           \/ PieceCount(r.G.board) < PieceCount(board)
                      THEN 0
                 ELSE streak + 1

\* A make_move call that leaves the players and the AI worker alone.
RecordMove(start_coords, end_coords, r) ==
    /\ RecordCall(start_coords, end_coords, r)
    /\ UNCHANGED gui_vars

\* make_move as the GUI calls it: the start holds a piece of the side to
\* move and the destination is among its legal moves.
LegalMove(start_coords, end_coords, promotion_choice) ==
    /\ get_piece_at(board, start_coords) # None
    /\ get_piece_at(board, start_coords).is_player1 = (current_player_index = 0)
    /\ end_coords \in get_legal_moves_for_piece(Game, start_coords)
    /\ RecordMove(start_coords, end_coords,
                  make_move(Game, start_coords, end_coords, promotion_choice))

\* make_move on a start square that is empty or holds a piece of the side
\* not to move.
WrongStartMove(start_coords, end_coords) ==
    /\ \/ get_piece_at(board, start_coords) = None
       \/ get_piece_at(board, start_coords).is_player1
            # (current_player_index = 0)
    /\ RecordMove(start_coords, end_coords,
                  make_move(Game, start_coords, end_coords, "none"))

\* make_move, unvalidated, on a piece of the side to move and a destination
\* that is not among its legal moves.
IllegalMove(start_coords, end_coords) ==
    /\ get_piece_at(board, start_coords) # None
    /\ get_piece_at(board, start_coords).is_player1 = (current_player_index = 0)
    /\ end_coords \notin get_legal_moves_for_piece(Game, start_coords)
    /\ RecordMove(start_coords, end_coords,
                  make_move(Game, start_coords, end_coords, "none"))

Undo ==
    /\ SetGame(undo_last_move(Game))
    /\ last_call' = Call("undo", NoCoords, NoCoords, TRUE)
    /\ positions' = <<>>
    /\ streak' = 0
    /\ made' = made
    /\ UNCHANGED gui_vars

Resign ==
    /\ SetGame(resign(Game))
    /\ last_call' = Call("resign", NoCoords, NoCoords, TRUE)
    /\ UNCHANGED <<positions, streak, made>>
    /\ UNCHANGED gui_vars

OfferDraw ==
    /\ SetGame(offer_draw(Game))
    /\ last_call' = Call("offer_draw", NoCoords, NoCoords, TRUE)
    /\ UNCHANGED <<positions, streak, made>>
    /\ UNCHANGED gui_vars

\* The squares the rejected calls are tried with: e4, empty at first, and
\* a7, a black pawn's at first.
ProbeSquares == {<<4, 4>>, <<1, 0>>}

\* The squares the players of Spec move from: those of the e and g files.
PlaySquares == { s \in Squares : s[2] \in {4, 6} }

\* A legal move of a piece on one of the play squares.
PlayMove ==
    \E s \in PlaySquares :
        /\ made < MaxMoves
        /\ \E e \in get_legal_moves_for_piece(Game, s) :
             \E pc \in ChoicesFor(Game, s, e) : LegalMove(s, e, pc)

Next ==
    \/ PlayMove
    \/ \E s \in ProbeSquares : WrongStartMove(s, <<4, 4>>)
    \/ Undo
    \/ Resign
    \/ OfferDraw

Spec == Init /\ [][Next]_vars

\* ------------------------------------------------ unvalidated make_move calls
\* The starts and destinations the unvalidated calls are tried with: the e2
\* pawn, the white king and the e7 pawn; e5, e8, e2 and g1.
RawStarts == {<<6, 4>>, <<7, 4>>, <<1, 4>>}

RawEnds == {<<3, 4>>, <<0, 4>>, <<6, 4>>, <<5, 6>>}

NextRaw ==
    \/ PlayMove
    \/ \E s \in RawStarts, e \in RawEnds :
         /\ made < MaxMoves
         /\ IllegalMove(s, e)
    \/ Undo

SpecRaw == Init /\ [][NextRaw]_vars

\* ---------------------------------------------------------- scripted games
FileOf(letter) == CHOOSE c \in Rows : FileLetter(c) = letter

\* The move from one algebraic square to another, as coordinates.
Mv(f1, r1, f2, r2) == <<<<8 - r1, FileOf(f1)>>, <<8 - r2, FileOf(f2)>>>>

\* 1.f3 e5 2.g4 Qh4
FoolsMate ==
    <<Mv("f", 2, "f", 3), Mv("e", 7, "e", 5),
      Mv("g", 2, "g", 4), Mv("d", 8, "h", 4)>>

\* A game that brings the black king to h4 behind its f4 pawn, a white rook
\* to b4, and then plays e2-e4, f4xe3 en passant and Rb4xh4.
EnPassantPin ==
    <<Mv("a", 2, "a", 4), Mv("f", 7, "f", 5), Mv("a", 1, "a", 3),
      Mv("f", 5, "f", 4), Mv("a", 3, "b", 3), Mv("e", 8, "f", 7),
      Mv("b", 3, "b", 4), Mv("f", 7, "g", 6), Mv("b", 1, "c", 3),
      Mv("g", 6, "h", 5), Mv("c", 3, "b", 1), Mv("h", 5, "h", 4),
      Mv("e", 2, "e", 4), Mv("f", 4, "e", 3), Mv("b", 4, "h", 4)>>

\* A game of 64 moves that trades everything off but the kings and the
\* white g-pawn (53 moves), walks the black king to h7 and the pawn to g7,
\* promotes on g8 and ends with the black king taking the promoted piece.
Endgame ==
    <<Mv("b", 1, "a", 3), Mv("b", 7, "b", 6), Mv("b", 2, "b", 3),
      Mv("b", 8, "a", 6), Mv("g", 1, "h", 3), Mv("b", 6, "b", 5),
      Mv("a", 3, "b", 5), Mv("a", 8, "b", 8), Mv("b", 5, "a", 7),
      Mv("b", 8, "b", 3), Mv("a", 7, "c", 8), Mv("a", 6, "b", 4),
      Mv("c", 8, "e", 7), Mv("b", 4, "a", 2), Mv("c", 2, "b", 3),
      Mv("a", 2, "c", 1), Mv("d", 1, "c", 1), Mv("f", 8, "e", 7),
      Mv("c", 1, "c", 7), Mv("d", 8, "c", 7), Mv("b", 3, "b", 4),
      Mv("c", 7, "h", 2), Mv("h", 1, "h", 2), Mv("e", 7, "b", 4),
      Mv("h", 2, "h", 1), Mv("b", 4, "d", 2), Mv("e", 1, "d", 2),
      Mv("g", 8, "h", 6), Mv("h", 3, "f", 4), Mv("g", 7, "g", 5),
      Mv("h", 1, "h", 6), Mv("g", 5, "f", 4), Mv("h", 6, "h", 7),
      Mv("h", 8, "h", 7), Mv("g", 2, "g", 3), Mv("f", 4, "g", 3),
      Mv("f", 2, "g", 3), Mv("h", 7, "h", 2), Mv("d", 2, "c", 3),
      Mv("h", 2, "e", 2), Mv("f", 1, "e", 2), Mv("d", 7, "d", 5),
      Mv("a", 1, "f", 1), Mv("e", 8, "d", 8), Mv("f", 1, "f", 7),
      Mv("d", 8, "e", 8), Mv("f", 7, "e", 7), Mv("e", 8, "e", 7),
      Mv("c", 3, "b", 3), Mv("e", 7, "d", 8), Mv("e", 2, "c", 4),
      Mv("d", 5, "c", 4), Mv("b", 3, "c", 4), Mv("d", 8, "e", 7),
      Mv("g", 3, "g", 4), Mv("e", 7, "f", 7), Mv("g", 4, "g", 5),
      Mv("f", 7, "g", 7), Mv("g", 5, "g", 6), Mv("g", 7, "h", 6),
      Mv("g", 6, "g", 7), Mv("h", 6, "h", 7), Mv("g", 7, "g", 8),
      Mv("h", 7, "g", 8)>>

\* 1.e4 a6 2.e5 d5 3.exd6 en passant
EnPassantWhite ==
    <<Mv("e", 2, "e", 4), Mv("a", 7, "a", 6), Mv("e", 4, "e", 5),
      Mv("d", 7, "d", 5), Mv("e", 5, "d", 6)>>

\* Both rook pawns run through: 1.a3 h5 2.a4 h4 3.a5 h3 4.a6 hxg2 5.axb7
\* gxh1 6.bxa8, a promotion of each side.
PromotionRace ==
    <<Mv("a", 2, "a", 3), Mv("h", 7, "h", 5), Mv("a", 3, "a", 4),
      Mv("h", 5, "h", 4), Mv("a", 4, "a", 5), Mv("h", 4, "h", 3),
      Mv("a", 5, "a", 6), Mv("h", 3, "g", 2), Mv("a", 6, "b", 7),
      Mv("g", 2, "h", 1), Mv("b", 7, "a", 8)>>

\* 1.e4 e5 2.Qh5 Ke7 3.Qxe5 mate
QuickMate ==
    <<Mv("e", 2, "e", 4), Mv("e", 7, "e", 5), Mv("d", 1, "h", 5),
      Mv("e", 8, "e", 7), Mv("h", 5, "e", 5)>>

\* Loyd's stalemate in ten moves: 1.e3 a5 2.Qh5 Ra6 3.Qxa5 h5 4.h4 Rah6
\* 5.Qxc7 f6 6.Qxd7 Kf7 7.Qxb7 Qd3 8.Qxb8 Qh7 9.Qxc8 Kg6 10.Qe6
QuickStalemate ==
    <<Mv("e", 2, "e", 3), Mv("a", 7, "a", 5), Mv("d", 1, "h", 5),
      Mv("a", 8, "a", 6), Mv("h", 5, "a", 5), Mv("h", 7, "h", 5),
      Mv("h", 2, "h", 4), Mv("a", 6, "h", 6), Mv("a", 5, "c", 7),
      Mv("f", 7, "f", 6), Mv("c", 7, "d", 7), Mv("e", 8, "f", 7),
      Mv("d", 7, "b", 7), Mv("d", 8, "d", 3), Mv("b", 7, "b", 8),
      Mv("d", 3, "h", 7), Mv("b", 8, "c", 8), Mv("f", 7, "g", 6),
      Mv("c", 8, "e", 6)>>

RECURSIVE Repeat(_, _)
Repeat(s, n) == IF n = 0 THEN <<>> ELSE s \o Repeat(s, n - 1)

\* 1.e4 e5 2.Nf3 Nh6 3.Nxe5, then a hundred moves without a capture or a
\* pawn move: the knights go ...Ng8 Nf3 ...Nh6 Ne5 twenty-three times over,
\* then ...Ng8 Nc4 ...Nh6 Nc3 ...Ke7 Qh5 ...Ng8 and Qe5 mate.
MateAtHundred ==
    <<Mv("e", 2, "e", 4), Mv("e", 7, "e", 5), Mv("g", 1, "f", 3),
      Mv("g", 8, "h", 6), Mv("f", 3, "e", 5)>>
    \o Repeat(<<Mv("h", 6, "g", 8), Mv("e", 5, "f", 3),
                Mv("g", 8, "h", 6), Mv("f", 3, "e", 5)>>, 23)
    \o <<Mv("h", 6, "g", 8), Mv("e", 5, "c", 4), Mv("g", 8, "h", 6),
         Mv("b", 1, "c", 3), Mv("e", 8, "e", 7), Mv("d", 1, "h", 5),
         Mv("h", 6, "g", 8), Mv("h", 5, "e", 5)>>

\* The white queen takes h7, h8, g8 and g7 and the white king walks to h7
\* while Black, the king at home, pushes the a-pawn and moves a knight out
\* and back: 1.e4 a6 2.Qh5 a5 3.Qxh7 a4 4.Qxh8 a3 5.Qxg8 Nc6 6.Qxg7 Nb8
\* 7.Ke2 Nc6 8.Ke3 Nb8 9.Kf4 Nc6 10.Kg5 Nb8 11.Kh6 Nc6 12.Kh7 Nb8
KingWalk ==
    <<Mv("e", 2, "e", 4), Mv("a", 7, "a", 6), Mv("d", 1, "h", 5),
      Mv("a", 6, "a", 5), Mv("h", 5, "h", 7), Mv("a", 5, "a", 4),
      Mv("h", 7, "h", 8), Mv("a", 4, "a", 3), Mv("h", 8, "g", 8),
      Mv("b", 8, "c", 6), Mv("g", 8, "g", 7), Mv("c", 6, "b", 8),
      Mv("e", 1, "e", 2), Mv("b", 8, "c", 6), Mv("e", 2, "e", 3),
      Mv("c", 6, "b", 8), Mv("e", 3, "f", 4), Mv("b", 8, "c", 6),
      Mv("f", 4, "g", 5), Mv("c", 6, "b", 8), Mv("g", 5, "h", 6),
      Mv("b", 8, "c", 6), Mv("h", 6, "h", 7), Mv("c", 6, "b", 8)>>

\* The white king leaves home and comes back: 1.e4 e5 2.Nf3 Nc6 3.Bc4 Bc5
\* 4.Ke2 Nf6 5.Ke1 Ng8, and then 6.Kg1
KingReturns ==
    <<Mv("e", 2, "e", 4), Mv("e", 7, "e", 5), Mv("g", 1, "f", 3),
      Mv("b", 8, "c", 6), Mv("f", 1, "c", 4), Mv("f", 8, "c", 5),
      Mv("e", 1, "e", 2), Mv("g", 8, "f", 6), Mv("e", 2, "e", 1),
      Mv("f", 6, "g", 8), Mv("e", 1, "g", 1)>>

BookLines ==
    {FoolsMate, EnPassantPin, Endgame, EnPassantWhite, PromotionRace,
     QuickMate, QuickStalemate, MateAtHundred, KingWalk, KingReturns}

\* The knights' moves out and back, played freely for MaxShuffle moves.
ShuffleMoves ==
    {Mv("g", 1, "f", 3), Mv("f", 3, "g", 1), Mv("b", 1, "c", 3),
     Mv("c", 3, "b", 1), Mv("g", 8, "f", 6), Mv("f", 6, "g", 8),
     Mv("b", 8, "c", 6), Mv("c", 6, "b", 8)}

\* The king's knights out and back, over and over.
ShuffleCycle ==
    <<Mv("g", 1, "f", 3), Mv("g", 8, "f", 6),
      Mv("f", 3, "g", 1), Mv("f", 6, "g", 8)>>

Played(history) ==
    [i \in 1 .. Len(history) |->
        <<history[i].start_coords, history[i].end_coords>>]

\* The moves the scripts allow after the moves of the history.
BookNext(history) ==
    LET n == Len(history)
        played == Played(history)
    IN  { L[n + 1] : L \in { K \in BookLines :
                               /\ Len(K) > n
                               /\ \A i \in 1 .. n : K[i] = played[i] } }
        \cup (IF n < MaxShuffle /\ \A i \in 1 .. n : played[i] \in ShuffleMoves
              THEN ShuffleMoves ELSE {})
        \cup (IF \A i \in 1 .. n : played[i] = ShuffleCycle[((i - 1) % 4) + 1]
              THEN {ShuffleCycle[(n % 4) + 1]} ELSE {})

NextBook ==
    \E m \in BookNext(move_history) :
        /\ made < MaxBookMoves
        /\ \E pc \in ChoicesFor(Game, m[1], m[2]) : LegalMove(m[1], m[2], pc)

SpecBook == Init /\ [][NextBook]_vars

\* ------------------------------------------- play on after the game is over
\* The moves after which an undone game is not played on.
MaxUndoMade == 3

\* The statuses that end the game.
TerminalStatuses ==
    {"checkmate", "stalemate", "draw by 50-move rule",
     "draw by threefold repetition", "draw by insufficient material",
     "draw by agreement", "resignation - Black wins",
     "resignation - White wins"}

\* A scripted move; once an undo has been made, only up to MaxUndoMade moves.
BookMove ==
    /\ positions # <<>> \/ made < MaxUndoMade
    /\ NextBook

\* The mated or stalemated side moves its king all the same.
MatedMove ==
    /\ game_state \in {"checkmate", "stalemate"}
    /\ made < MaxBookMoves
    /\ LET s == _find_piece_by_type(board, "K", current_player_index = 0)
       IN  /\ s # NoCoords
           /\ \E e \in Squares :
                 /\ e # s
                 /\ Abs(e[1] - s[1]) <= 1 /\ Abs(e[2] - s[2]) <= 1
                 /\ IllegalMove(s, e)

\* Undo once the game is over, once in a run.
TerminalUndo ==
    /\ game_state \in TerminalStatuses
    /\ positions # <<>>
    /\ Undo

NextStatus ==
    \/ BookMove
    \/ MatedMove
    \/ Resign
    \/ OfferDraw
    \/ TerminalUndo
    \/ \E s \in ProbeSquares : WrongStartMove(s, <<4, 4>>)

SpecStatus == Init /\ [][NextStatus]_vars

\* ------------------------------------------- queries between the moves
\* The scripted games the queries are made in.
QueryLines ==
    {EnPassantPin, Endgame, EnPassantWhite, PromotionRace, QuickMate,
     QuickStalemate, KingWalk}

\* The next move of one of those games.
QueryMove ==
    \E L \in QueryLines :
        /\ Len(L) > Len(move_history)
        /\ \A i \in 1 .. Len(move_history) : L[i] = Played(move_history)[i]
        /\ LET m == L[Len(move_history) + 1]
           IN  \E pc \in ChoicesFor(Game, m[1], m[2]) :
                   LegalMove(m[1], m[2], pc)

\* get_legal_moves_for_piece for a piece of the side to move, as the
\* selection of a square calls it; the Game is left as the simulations of
\* the call leave it.
QueryLegalMoves ==
    \E s \in Squares :
        /\ get_piece_at(board, s) # None
        /\ get_piece_at(board, s).is_player1 = (current_player_index = 0)
        /\ SetGame([Game EXCEPT !.board = BoardAfterLegalMoves(Game, s)])
        /\ last_call' = Call("get_legal_moves_for_piece", s, NoCoords, TRUE)
        /\ UNCHANGED <<positions, streak, made>>
        /\ UNCHANGED gui_vars

\* is_in_check for one of the players: it reads the board and writes
\* nothing.
QueryCheck ==
    \E w \in BOOLEAN :
        /\ SetGame(Game)
        /\ last_call' = Call("is_in_check", NoCoords, NoCoords,
                             is_in_check(board, move_history, w))
        /\ UNCHANGED <<positions, streak, made>>
        /\ UNCHANGED gui_vars

NextQuery == QueryMove \/ QueryLegalMoves \/ QueryCheck

SpecQuery == Init /\ [][NextQuery]_vars

\* ------------------------------------------------- a move made and undone
\* The applications of the move in a run.
MaxCycles == 101

\* The knights' first moves: neither a pawn's move nor a capture.
KnightOpenings ==
    {Mv("b", 1, "a", 3), Mv("b", 1, "c", 3), Mv("g", 1, "f", 3),
     Mv("g", 1, "h", 3)}

\* A knight's first move from the initial position; after an undo, the move
\* that was undone.
CycleMove ==
    \E m \in KnightOpenings :
        /\ made < MaxCycles
        /\ move_history = <<>>
        /\ last_call.op = "undo"
              => m = <<last_call.start_coords, last_call.end_coords>>
        /\ LegalMove(m[1], m[2], "none")

\* undo_last_move on a history that holds a move; the call is recorded with
\* the squares of the move it undoes.
CycleUndo ==
    /\ move_history # <<>>
    /\ SetGame(undo_last_move(Game))
    /\ last_call' = Call("undo", move_history[Len(move_history)].start_coords,
                         move_history[Len(move_history)].end_coords, TRUE)
    /\ positions' = <<>>
    /\ streak' = 0
    /\ made' = made
    /\ UNCHANGED gui_vars

NextCycle == CycleMove \/ CycleUndo

SpecCycle == Init /\ [][NextCycle]_vars

\* ------------------------------------------------------ gui.py: AI players
\* ord(ch) and int(ch) of Python, for the characters of the replies.
ord(ch) ==
    CASE ch = "a" -> 97 [] ch = "b" -> 98 [] ch = "c" -> 99
      [] ch = "d" -> 100 [] ch = "e" -> 101 [] ch = "f" -> 102
      [] ch = "g" -> 103 [] ch = "h" -> 104 [] ch = "q" -> 113
      [] ch = "0" -> 48 [] ch = "1" -> 49 [] ch = "2" -> 50
      [] ch = "3" -> 51 [] ch = "4" -> 52 [] ch = "5" -> 53
      [] ch = "6" -> 54 [] ch = "7" -> 55 [] ch = "8" -> 56
      [] ch = "9" -> 57

\* int(ch) succeeds on a decimal digit and raises ValueError otherwise.
IsDigit(ch) == ch \in {"0", "1", "2", "3", "4", "5", "6", "7", "8", "9"}

int(ch) == ord(ch) - ord("0")

\* _parse_ai_move: (start, end), or (None, None), written
\* <<NoCoords, NoCoords>>, when the string is shorter than four characters
\* or int() raises.
_parse_ai_move(move_str) ==
    IF /\ Len(move_str) >= 4
       /\ IsDigit(move_str[2])
       /\ IsDigit(move_str[4])
    THEN <<<<8 - int(move_str[2]), ord(move_str[1]) - ord("a")>>,
           <<8 - int(move_str[4]), ord(move_str[3]) - ord("a")>>>>
    ELSE <<NoCoords, NoCoords>>

\* board[r][c] raises IndexError: an index is outside the list.
RaisesIndexError(coords) ==
    \/ coords[1] < -BOARD_DIMENSION \/ coords[1] >= BOARD_DIMENSION
    \/ coords[2] < -BOARD_DIMENSION \/ coords[2] >= BOARD_DIMENSION

\* The moves of a run after which no AI computation is started.
MaxAiMoves == 4

\* The kinds of player of _create_player.
PlayerTypes == {"human", "stockfish", "gemini"}

\* The player object of the side to move.
current_player_object ==
    IF current_player_index = 0 THEN white_player ELSE black_player

is_human_turn == current_player_object = "human"

\* Replies of the shape [a-h][1-8][a-h][1-8], all that AIPlayer.get_best_move
\* lets through: e2e4, g1f3, e7e5, g8f6, e2e5, e1g1, f7f5, d1h5.
ShapedReplies ==
    {<<"e", "2", "e", "4">>, <<"g", "1", "f", "3">>, <<"e", "7", "e", "5">>,
     <<"g", "8", "f", "6">>, <<"e", "2", "e", "5">>, <<"e", "1", "g", "1">>,
     <<"f", "7", "f", "5">>, <<"d", "1", "h", "5">>}

\* The UCI text of the null move, which Move.uci() can return.
NullMoveUci == <<"0", "0", "0", "0">>

\* The UCI text of a promotion, with the letter of the promoted kind.
PromotionUci == <<"e", "7", "e", "8", "q">>

\* What get_best_move of a player can return: a string, or None.  The
\* Gemini player returns a match of [a-h][1-8][a-h][1-8]; the Stockfish
\* player returns the UCI text of the move of the engine process.
RepliesOf(player) ==
    IF player = "gemini" THEN ShapedReplies \cup {PyNone}
    ELSE ShapedReplies \cup {NullMoveUci, PromotionUci, PyNone}

\* ChessGUI.__init__ with any choice of the two players.
InitAI ==
    /\ white_player \in PlayerTypes
    /\ black_player \in PlayerTypes
    /\ ai_is_thinking = FALSE
    /\ ai_move_result = PyNone
    /\ ai_thread = NoThread
    /\ crashed = FALSE
    /\ board = NewGame.board
    /\ current_player_index = NewGame.current_player_index
    /\ game_state = NewGame.game_state
    /\ move_history = NewGame.move_history
    /\ white_captured = NewGame.white_captured
    /\ black_captured = NewGame.black_captured
    /\ halfmove_clock = NewGame.halfmove_clock
    /\ position_history = NewGame.position_history
    /\ last_call = Call("new", NoCoords, NoCoords, TRUE)
    /\ positions = <<Layout(NewGame)>>
    /\ streak = 0
    /\ made = 0

game_vars == <<board, current_player_index, game_state, move_history,
               white_captured, black_captured, halfmove_clock,
               position_history, last_call, positions, streak, made>>

\* _handle_ai_turn_start, when it is an AI's turn: the worker thread is
\* started.
_handle_ai_turn_start ==
    /\ ~crashed
    /\ made < MaxAiMoves
    /\ current_player_object # "human"
    /\ ~ai_is_thinking
    /\ game_state = "active"
    /\ ai_is_thinking' = TRUE
    /\ ai_thread' = [pc |-> "started", fen |-> ""]
    /\ UNCHANGED <<white_player, black_player, ai_move_result, crashed>>
    /\ UNCHANGED game_vars

\* _get_ai_move_threaded, first statement: the worker reads the position.
WorkerReadsFen ==
    /\ ai_thread.pc = "started"
    /\ ai_thread' = [pc |-> "asked", fen |-> to_fen(Game)]
    /\ UNCHANGED <<white_player, black_player, ai_is_thinking,
                   ai_move_result, crashed>>
    /\ UNCHANGED game_vars

\* _get_ai_move_threaded, the rest: get_best_move returns and the worker
\* stores the reply under the lock.
WorkerDelivers ==
    /\ ai_thread.pc = "asked"
    /\ \E move \in RepliesOf(current_player_object) :
         ai_move_result' = move
    /\ ai_thread' = NoThread
    /\ UNCHANGED <<white_player, black_player, ai_is_thinking, crashed>>
    /\ UNCHANGED game_vars

\* _process_ai_result, when a reply is waiting.
_process_ai_result ==
    /\ ~crashed
    /\ ai_move_result # PyNone
    /\ ai_move_result' = PyNone
    /\ UNCHANGED <<white_player, black_player, ai_thread>>
    /\ LET move_to_make == ai_move_result
           parsed == _parse_ai_move(move_to_make)
           start_coords == parsed[1]
           end_coords == parsed[2]
       IN  IF move_to_make = <<>>
           THEN UNCHANGED <<ai_is_thinking, crashed>> /\ UNCHANGED game_vars
           ELSE IF parsed = <<NoCoords, NoCoords>>
           THEN /\ ai_is_thinking' = FALSE
                /\ UNCHANGED crashed /\ UNCHANGED game_vars
           ELSE IF RaisesIndexError(start_coords)
           THEN /\ crashed' = TRUE
                /\ UNCHANGED ai_is_thinking /\ UNCHANGED game_vars
           ELSE IF /\ get_piece_at(board, start_coords) # None
                   /\ end_coords
                        \in get_legal_moves_for_piece(Game, start_coords)
           THEN /\ RecordCall(start_coords, end_coords,
                              make_move(Game, start_coords, end_coords, "none"))
                /\ ai_is_thinking' = FALSE
                /\ UNCHANGED crashed
           ELSE /\ ai_is_thinking' = FALSE
                /\ UNCHANGED crashed /\ UNCHANGED game_vars

\* An event loop that hands every event to handle_input.
InputAllowed_Always == TRUE

\* The main loop hands an event to handle_input when no AI is thinking and
\* the side to move is human.
InputAllowed == ~ai_is_thinking /\ is_human_turn

\* A move of a human player.
HumanMove ==
    /\ ~crashed
    /\ InputAllowed
    /\ PlayMove

\* One human and one AI player.
is_h_vs_ai ==
    \/ white_player = "human" /\ black_player # "human"
    \/ white_player # "human" /\ black_player = "human"

\* _undo_move: one undo, and a second one against an AI.
HumanUndo ==
    /\ ~crashed
    /\ InputAllowed
    /\ SetGame(IF is_h_vs_ai THEN undo_last_move(undo_last_move(Game))
               ELSE undo_last_move(Game))
    /\ last_call' = Call("undo", NoCoords, NoCoords, TRUE)
    /\ positions' = <<>>
    /\ streak' = 0
    /\ made' = made
    /\ UNCHANGED gui_vars

\* The Resign and Offer Draw buttons.
HumanResign == ~crashed /\ InputAllowed /\ Resign

HumanOfferDraw == ~crashed /\ InputAllowed /\ OfferDraw

\* _reset_game_state: a new Game replaces the old one.
HumanReset ==
    /\ ~crashed
    /\ InputAllowed
    /\ SetGame(NewGame)
    /\ last_call' = Call("new", NoCoords, NoCoords, TRUE)
    /\ positions' = <<Layout(NewGame)>>
    /\ streak' = 0
    /\ made' = 0
    /\ UNCHANGED gui_vars

NextAI ==
    \/ _handle_ai_turn_start
    \/ WorkerReadsFen
    \/ WorkerDelivers
    \/ _process_ai_result
    \/ HumanMove
    \/ HumanUndo
    \/ HumanResign
    \/ HumanOfferDraw
    \/ HumanReset

SpecAI == InitAI /\ [][NextAI]_vars

\* Two AI players, as the program is shipped.
InitAILive ==
    /\ InitAI
    /\ white_player # "human"
    /\ black_player # "human"

NextAILive ==
    \/ _handle_ai_turn_start
    \/ WorkerReadsFen
    \/ WorkerDelivers
    \/ _process_ai_result

\* The first lines of _process_ai_result: a waiting reply is taken.  The
\* steps that take a reply are the steps of _process_ai_result.
TakeReply ==
    /\ ~crashed
    /\ ai_move_result # PyNone
    /\ ai_move_result' = PyNone

\* The main loop runs for ever, calling _handle_ai_turn_start and
\* _process_ai_result in every round, and a started worker thread runs to
\* its end.
SpecAILive ==
    /\ InitAILive
    /\ [][NextAILive]_vars
    /\ WF_vars(_handle_ai_turn_start)
    /\ WF_ai_move_result(TakeReply)
    /\ WF_vars(WorkerReadsFen)
    /\ WF_vars(WorkerDelivers)

\* ------------------------------------------------------------------ claims
\* The start square holds a piece of the side to move.
OwnPieceAt(G, s) ==
    /\ get_piece_at(G.board, s) # None
    /\ get_piece_at(G.board, s).is_player1 = CurrentIsWhite(G)

\* The step is a make_move call.
MakeMoveStep == last_call'.op = "make_move"

\* What a make_move followed by an undo_last_move is to restore.
RoundTripView(G) ==
    [occupancy |-> Layout(G).b,
     white_captured |-> G.white_captured,
     black_captured |-> G.black_captured,
     side |-> G.current_player_index,
     placement |-> FenFields(G).placement,
     active_color |-> FenFields(G).active_color,
     castling_rights |-> FenFields(G).castling_rights,
     halfmove_clock |-> FenFields(G).halfmove_clock]

\* C1: in every position reached by engine-legal moves, every engine-legal
\* move followed by undo_last_move restores the occupancy of the 64 squares,
\* both captured lists, the side to move and the FEN fields piece placement,
\* active colour, castling rights and halfmove clock.
C1_RoundTripRestores ==
    \A s \in Squares :
        OwnPieceAt(Game, s) =>
            \A e \in get_legal_moves_for_piece(Game, s) :
                \A pc \in ChoicesFor(Game, s, e) :
                    RoundTripView(undo_last_move(make_move(Game, s, e, pc).G))
                      = RoundTripView(Game)

\* C2: after every engine-legal move executed by make_move, the king of the
\* side that moved is not attacked.
C2_MoverKingSafe ==
    (last_call.op = "make_move" /\ last_call.ret) =>
        ~is_in_check(board, move_history, current_player_index = 1)

\* The squares of a row strictly between two columns.
Between(row, c1, c2) ==
    { <<row, c>> : c \in { k \in Rows : (c1 < k /\ k < c2) \/ (c2 < k /\ k < c1) } }

\* The conditions under which castling from s to e is permitted.
CastlingEligible(G, s, e) ==
    LET row == s[1]
        rook_sq == <<row, IF e[2] > s[2] THEN 7 ELSE 0>>
        rook == get_piece_at(G.board, rook_sq)
        white == CurrentIsWhite(G)
    IN  /\ ~is_in_check(G.board, G.move_history, white)
        /\ rook.name = "R" /\ rook.is_player1 = white /\ ~rook.has_moved
        /\ \A t \in Between(row, s[2], rook_sq[2]) :
               get_piece_at(G.board, t) = None
        /\ \A t \in Between(row, s[2], e[2]) \cup {s, e} :
               ~_is_square_attacked(G.board, G.move_history, t, ~white)

\* C3: get_legal_moves_for_piece returns a king move of two files along the
\* rank only if the king is not in check, the rook of that side has never
\* moved, the squares between king and rook are empty, and the king's
\* square, the square it passes and the one it lands on are not attacked.
C3_CastlingOnlyWhenEligible ==
    \A s \in Squares :
        (OwnPieceAt(Game, s) /\ get_piece_at(board, s).name = "K") =>
            \A e \in get_legal_moves_for_piece(Game, s) :
                (e[1] = s[1] /\ Abs(e[2] - s[2]) = 2) =>
                    CastlingEligible(Game, s, e)

\* C4: after f2-f3, e7-e5, g2-g4, Qd8-h4 from a new game the status is
\* checkmate and no white piece has a legal move.
C4_FoolsMateIsCheckmate ==
    (Len(move_history) = Len(FoolsMate)
       /\ \A i \in 1 .. Len(FoolsMate) : Played(move_history)[i] = FoolsMate[i])
    => /\ game_state = "checkmate"
       /\ \A s \in Squares :
              (get_piece_at(board, s) # None /\ get_piece_at(board, s).is_player1)
                => get_legal_moves_for_piece(Game, s) = {}

\* C5: make_move with no piece on start, or a piece of the side not to
\* move, returns False and leaves board, has_moved flags, history, captured
\* lists, side to move, halfmove clock, repetition counts and status alone.
C5_WrongStartRejected ==
    [][(MakeMoveStep /\ ~OwnPieceAt(Game, last_call'.start_coords))
         => (~last_call'.ret /\ UNCHANGED engine_vars)]_vars

\* C5 witness: a rejected call on a piece of the side not to move, after a
\* move has been made.
C5_Witness ==
    /\ last_call.op = "make_move" /\ ~last_call.ret
    /\ get_piece_at(board, last_call.start_coords) # None
    /\ Len(move_history) > 0

\* The make_move call of the step is on a piece of the side to move with a
\* destination that is not among its legal moves.
IllegalDestinationStep ==
    /\ MakeMoveStep
    /\ OwnPieceAt(Game, last_call'.start_coords)
    /\ last_call'.end_coords
         \notin get_legal_moves_for_piece(Game, last_call'.start_coords)

\* C6 as stated: make_move on a piece of the side to move with a destination
\* that is not among its legal moves returns False and changes nothing.
C6_IllegalDestinationRejected ==
    [][IllegalDestinationStep
         => (~last_call'.ret /\ UNCHANGED engine_vars)]_vars

\* C6 as amended: such a call returns True and is executed; the history
\* grows by the entry of that move, the side to move flips, and the start
\* square is left empty.
C6_IllegalDestinationExecuted ==
    [][IllegalDestinationStep
         => /\ last_call'.ret
            /\ Len(move_history') = Len(move_history) + 1
            /\ SubSeq(move_history', 1, Len(move_history)) = move_history
            /\ move_history'[Len(move_history')].start_coords
                 = last_call'.start_coords
            /\ move_history'[Len(move_history')].end_coords
                 = last_call'.end_coords
            /\ current_player_index' = 1 - current_player_index
            /\ get_piece_at(board', last_call'.start_coords) = None]_vars

\* C6 witness: the e2 pawn has been moved to e5 in one call.
C6_Witness ==
    /\ last_call = Call("make_move", <<6, 4>>, <<3, 4>>, TRUE)
    /\ get_piece_at(board, <<3, 4>>).name = "P"
    /\ get_piece_at(board, <<6, 4>>) = None

\* C7: undo_last_move on an empty history changes nothing, a status set by
\* resign or offer_draw included.
C7_UndoOnEmptyHistoryIsNoOp ==
    [][(last_call'.op = "undo" /\ move_history = <<>>)
         => UNCHANGED engine_vars]_vars

\* C7 witness: undo has been called on an empty history after offer_draw,
\* and the status is still the agreed draw.
C7_Witness ==
    /\ last_call.op = "undo"
    /\ move_history = <<>>
    /\ game_state = "draw by agreement"

KingsOf(b, white) ==
    { s \in Squares : get_piece_at(b, s).name = "K"
                        /\ get_piece_at(b, s).is_player1 = white }

\* C8: the board holds exactly one white King and exactly one black King.
C8_OneKingEach ==
    /\ Cardinality(KingsOf(board, TRUE)) = 1
    /\ Cardinality(KingsOf(board, FALSE)) = 1

\* The occurrences of a layout among the positions of the game so far.
Occurrences(L) ==
    Cardinality({ i \in 1 .. Len(positions) : positions[i] = L })

\* The move just applied produced the third occurrence of its position.
ThirdOccurrence ==
    /\ last_call.op = "make_move" /\ last_call.ret
    /\ Occurrences(Layout(Game)) = 3

\* C9: when the move just applied produces the third occurrence of the same
\* layout with the same side to move, the initial position counting, and
\* the halfmove clock is below 100, the status is the repetition draw.
C9_ThirdOccurrenceIsDraw ==
    (ThirdOccurrence /\ halfmove_clock < 100)
      => game_state = "draw by threefold repetition"

\* C9 witness: a third occurrence of a position other than the initial one.
C9_Witness ==
    /\ ThirdOccurrence
    /\ halfmove_clock < 100
    /\ Layout(Game) # Layout(NewGame)

\* C10: after 100 consecutive successful make_move calls that move no pawn
\* and capture nothing the status is the fifty-move draw.
C10_FiftyMoveDraw ==
    (last_call.op = "make_move" /\ last_call.ret /\ streak >= 100)
      => game_state = "draw by 50-move rule"

\* C10 witness: the hundredth such move has been made.
C10_Witness ==
    /\ last_call.op = "make_move" /\ last_call.ret
    /\ streak >= 100
    /\ Len(move_history) >= 100

\* The kinds of the pieces on the board that are not kings, square by square.
OthersOf(b) ==
    { s \in Squares : get_piece_at(b, s) # None /\ get_piece_at(b, s).name # "K" }

\* The board holds the two kings and nothing else.
BareKings(b) ==
    /\ Cardinality(KingsOf(b, TRUE)) = 1
    /\ Cardinality(KingsOf(b, FALSE)) = 1
    /\ OthersOf(b) = {}

\* The board holds the two kings and exactly one more piece, of one of the
\* kinds.
KingsAndOne(b, kinds) ==
    /\ Cardinality(KingsOf(b, TRUE)) = 1
    /\ Cardinality(KingsOf(b, FALSE)) = 1
    /\ Cardinality(OthersOf(b)) = 1
    /\ \A s \in OthersOf(b) : get_piece_at(b, s).name \in kinds

\* A successful make_move has just been made and neither the fifty-move rule
\* nor the repetition rule applies to the position it left.
MovedBelowDrawCounts ==
    /\ last_call.op = "make_move" /\ last_call.ret
    /\ halfmove_clock < 100
    /\ HistoryCount(position_history, _get_position_hash(Game)) < 3

\* C11: after a successful make_move that leaves the two kings alone, or with
\* one bishop or one knight, with the halfmove clock below 100 and the
\* repetition count below 3, the status is the insufficient-material draw;
\* with the two kings and one pawn, rook or queen it is not.
C11_InsufficientMaterial ==
    MovedBelowDrawCounts =>
        /\ (BareKings(board) \/ KingsAndOne(board, {"B", "N"}))
              => game_state = "draw by insufficient material"
        /\ KingsAndOne(board, {"P", "R", "Q"})
              => game_state # "draw by insufficient material"

\* C11 witness: a pawn has just promoted to a knight, leaving the two kings
\* and that knight, and the game is drawn.
C11_Witness ==
    /\ MovedBelowDrawCounts
    /\ KingsAndOne(board, {"N"})
    /\ move_history[Len(move_history)].is_promotion
    /\ game_state = "draw by insufficient material"

\* The make_move call of the step moves a pawn onto the square passed over
\* by the enemy pawn that made a double step as the move before, from the
\* square beside that pawn.
EnPassantStep ==
    /\ MakeMoveStep /\ last_call'.ret
    /\ Len(move_history) > 0
    /\ LET s == last_call'.start_coords
           e == last_call'.end_coords
           p == get_piece_at(board, s)
           m == move_history[Len(move_history)]
       IN  /\ p.name = "P" /\ p.is_player1 = (current_player_index = 0)
           /\ m.piece_moved.name = "P"
           /\ m.piece_moved.is_player1 # p.is_player1
           /\ Abs(m.start_coords[1] - m.end_coords[1]) = 2
           /\ m.end_coords[1] = s[1]
           /\ Abs(m.end_coords[2] - s[2]) = 1
           /\ e[2] = m.end_coords[2]
           /\ 2 * e[1] = m.start_coords[1] + m.end_coords[1]

\* C12: such a move is executed as en passant: the double-stepped pawn is
\* removed from the mover's origin rank and the destination file and is
\* the captured piece of the move, the destination holds the capturing
\* pawn, the origin is cleared and no other square changes.
C12_EnPassantExecuted ==
    [][EnPassantStep =>
        LET s == last_call'.start_coords
            e == last_call'.end_coords
            victim_sq == <<s[1], e[2]>>
            victim == get_piece_at(board, victim_sq)
            mv == move_history'[Len(move_history')]
            taken == IF current_player_index = 0 THEN black_captured'
                     ELSE white_captured'
            taken_before == IF current_player_index = 0 THEN black_captured
                            ELSE white_captured
        IN  /\ victim.name = "P"
            /\ victim.is_player1 # (current_player_index = 0)
            /\ get_piece_at(board', victim_sq) = None
            /\ mv.is_en_passant
            /\ mv.piece_captured = victim
            /\ taken = Append(taken_before, victim)
            /\ get_piece_at(board', e).name = "P"
            /\ get_piece_at(board', e).is_player1 = (current_player_index = 0)
            /\ get_piece_at(board', s) = None
            /\ \A t \in Squares \ {s, e, victim_sq} :
                   get_piece_at(board', t) = get_piece_at(board, t)]_vars

\* C12 witness: White has just taken the d5 pawn en passant from e5.
C12_Witness ==
    /\ last_call = Call("make_move", <<3, 4>>, <<2, 3>>, TRUE)
    /\ move_history[Len(move_history)].is_en_passant
    /\ get_piece_at(board, <<2, 3>>).name = "P"
    /\ get_piece_at(board, <<3, 3>>) = None
    /\ Len(black_captured) = 1

\* The pawns of a colour on the board.
PawnsOf(b, white) ==
    { s \in Squares : get_piece_at(b, s).name = "P"
                        /\ get_piece_at(b, s).is_player1 = white }

\* The kind a promotion_choice names, a Queen when it names none.
KindNamed(promotion_choice) ==
    CASE promotion_choice = "R" -> "R"
      [] promotion_choice = "B" -> "B"
      [] promotion_choice = "N" -> "N"
      [] OTHER -> "Q"

\* C13: every pawn move ending on row 0 or row 7 puts on the destination a
\* piece of the mover's colour of the kind promotion_choice names, a Queen
\* for every value other than Q, R, B, N, and the pawn leaves the board.
C13_PromotionPlacesChosenKind ==
    \A s \in PawnsOf(board, current_player_index = 0) :
        \A e \in get_legal_moves_for_piece(Game, s) :
            e[1] \in {0, 7} =>
                \A pc \in PromotionChoices :
                    LET r == make_move(Game, s, e, pc)
                        placed == get_piece_at(r.G.board, e)
                    IN  /\ r.ret
                        /\ placed.name = KindNamed(pc)
                        /\ placed.is_player1 = (current_player_index = 0)
                        /\ get_piece_at(r.G.board, s) = None
                        /\ Cardinality(PawnsOf(r.G.board,
                                                current_player_index = 0))
                             = Cardinality(PawnsOf(board,
                                                   current_player_index = 0)) - 1

\* C13 witness: Black's pawn has promoted on h1 to a rook and White's pawn
\* can now promote on a8.
C13_Witness ==
    /\ last_call = Call("make_move", <<6, 6>>, <<7, 7>>, TRUE)
    /\ move_history[Len(move_history)].is_promotion
    /\ get_piece_at(board, <<7, 7>>) = [name |-> "R", is_player1 |-> FALSE,
                                        has_moved |-> FALSE]
    /\ <<0, 0>> \in get_legal_moves_for_piece(Game, <<1, 1>>)

\* C14: to_fen of a freshly constructed Game, before any move, is the FEN of
\* the starting position.
C14_StartFen ==
    last_call.op = "new" =>
        to_fen(Game) = "rnbqkbnr/pppppppp/8/8/8/8/PPPPPPPP/RNBQKBNR w KQkq - 0 1"

\* C14 witness: the Game as constructed, no call made on it yet, with its
\* 32 pieces and an empty history.
C14_Witness ==
    /\ last_call.op = "new"
    /\ move_history = <<>>
    /\ PieceCount(board) = 32
    /\ FenFields(Game).fullmove_number = "1"

\* The engine state other than the status.
NonStatusVars ==
    <<board, current_player_index, move_history, white_captured,
      black_captured, halfmove_clock, position_history>>

\* resign and offer_draw set the status to their terminal value and change
\* nothing else.
ResignAndDrawSetStatusOnly ==
    /\ last_call'.op = "resign" =>
          /\ game_state' = (IF current_player_index = 0
                            THEN "resignation - Black wins"
                            ELSE "resignation - White wins")
          /\ UNCHANGED NonStatusVars
    /\ last_call'.op = "offer_draw" =>
          /\ game_state' = "draw by agreement"
          /\ UNCHANGED NonStatusVars

\* A make_move by the side to move in a terminal status is executed,
\* returns True, and leaves the status recomputed from the new position.
TerminalMoveExecuted ==
    (MakeMoveStep /\ OwnPieceAt(Game, last_call'.start_coords)
       /\ game_state \in TerminalStatuses)
    => /\ last_call'.ret
       /\ Len(move_history') = Len(move_history) + 1
       /\ current_player_index' = 1 - current_player_index
       /\ get_piece_at(board', last_call'.start_coords) = None
       /\ game_state' = _update_game_status(Game').game_state
       /\ game_state' \notin {"draw by agreement", "resignation - Black wins",
                              "resignation - White wins"}

\* The status changes only through a successful make_move, an undo on a
\* history that is not empty, resign or offer_draw.
StatusChangesOnlyByThose ==
    game_state' # game_state =>
        \/ MakeMoveStep /\ last_call'.ret
        \/ last_call'.op = "undo" /\ move_history # <<>>
        \/ last_call'.op = "resign"
        \/ last_call'.op = "offer_draw"

\* C15: resign and offer_draw set the status to a terminal value and change
\* nothing else; make_move is not blocked in a terminal status: a move of
\* the side to move is executed, returns True and replaces the status by
\* the recomputed one; and the status changes through nothing but a
\* successful make_move, an undo on a non-empty history, resign and
\* offer_draw.
C15_TerminalStatusNotEnforced ==
    [][/\ ResignAndDrawSetStatusOnly
       /\ TerminalMoveExecuted
       /\ StatusChangesOnlyByThose]_vars

\* C15 witness: after 3.Qxe5 mate Black has made a sixth move all the same
\* and the status is no longer checkmate.
C15_Witness ==
    /\ Len(move_history) = Len(QuickMate) + 1
    /\ \A i \in 1 .. Len(QuickMate) : Played(move_history)[i] = QuickMate[i]
    /\ last_call.op = "make_move" /\ last_call.ret
    /\ game_state # "checkmate"

\* The main thread takes the waiting reply in this step.
ReplyProcessed == ai_move_result # PyNone /\ ai_move_result' = PyNone

\* The reply parses to two squares of the board and the second is among the
\* engine's legal moves for the first.
ReplyIsLegalMove(move_str) ==
    LET parsed == _parse_ai_move(move_str)
    IN  /\ parsed[1] \in Squares
        /\ parsed[2] \in Squares
        /\ parsed[2] \in get_legal_moves_for_piece(Game, parsed[1])

\* C16: a reply of an AI worker is applied to the engine only if it parses
\* to two squares and its destination is among the engine's legal moves for
\* its start; for every other reply the engine state is unchanged and the
\* thinking flag is cleared.
C16_AiReplyValidated ==
    [][ReplyProcessed =>
         IF ReplyIsLegalMove(ai_move_result)
         THEN ~ai_is_thinking'
         ELSE UNCHANGED engine_vars /\ ~ai_is_thinking']_vars

\* The string is exactly four characters: file a-h, rank 1-8, file a-h,
\* rank 1-8.
ExactShape(move_str) ==
    /\ Len(move_str) = 4
    /\ move_str[1] \in {"a", "b", "c", "d", "e", "f", "g", "h"}
    /\ move_str[2] \in {"1", "2", "3", "4", "5", "6", "7", "8"}
    /\ move_str[3] \in {"a", "b", "c", "d", "e", "f", "g", "h"}
    /\ move_str[4] \in {"1", "2", "3", "4", "5", "6", "7", "8"}

\* C17: _parse_ai_move returns coordinates only for a string of exactly
\* that shape, so that the coordinates handed to get_piece_at,
\* get_legal_moves_for_piece and make_move are squares of the board.
C17_ParserRejectsMalformed ==
    (ai_move_result # PyNone
       /\ _parse_ai_move(ai_move_result) # <<NoCoords, NoCoords>>)
    => /\ ExactShape(ai_move_result)
       /\ _parse_ai_move(ai_move_result)[1] \in Squares
       /\ _parse_ai_move(ai_move_result)[2] \in Squares

\* The status the precedence of the draw rules gives the position, or "" when
\* no draw rule applies to it.
DrawByPrecedence ==
    IF halfmove_clock >= 100 THEN "draw by 50-move rule"
    ELSE IF HistoryCount(position_history, _get_position_hash(Game)) >= 3
         THEN "draw by threefold repetition"
    ELSE IF BareKings(board) \/ KingsAndOne(board, {"B", "N"})
         THEN "draw by insufficient material"
    ELSE ""

\* The side to move is in check and has no engine-legal move.
Mated ==
    /\ ~has_legal_move(Game)
    /\ is_in_check(board, move_history, current_player_index = 0)

\* C18: after a successful make_move the status follows a fixed precedence:
\* the fifty-move draw when the halfmove clock is at least 100, else the
\* repetition draw when the position's count is at least 3, else the
\* insufficient-material draw, and only then checkmate, stalemate, check or
\* active; a mate delivered by the move that brings the clock to 100 is
\* reported as the fifty-move draw.
C18_StatusPrecedence ==
    (last_call.op = "make_move" /\ last_call.ret)
      => IF DrawByPrecedence # "" THEN game_state = DrawByPrecedence
         ELSE game_state \in {"checkmate", "stalemate", "check", "active"}

\* C18 witness: the hundredth move without a capture or a pawn move mates,
\* and the status is the fifty-move draw.
C18_Witness ==
    /\ last_call.op = "make_move" /\ last_call.ret
    /\ halfmove_clock = 100
    /\ Mated
    /\ game_state = "draw by 50-move rule"

\* The side to move has an engine-legal move: a piece of its own with a
\* destination among its legal moves.
SideHasMove ==
    \E s \in Squares : \E e \in Squares :
        /\ get_piece_at(board, s) # None
        /\ get_piece_at(board, s).is_player1 = (current_player_index = 0)
        /\ e \in get_legal_moves_for_piece(Game, s)

SideInCheck == is_in_check(board, move_history, current_player_index = 0)

\* C19: after a successful make_move to which no draw rule applies, the
\* status is checkmate exactly when the side to move has no engine-legal
\* move and is in check, stalemate exactly when it has none and is not in
\* check, check exactly when it has one and is in check, and active
\* otherwise.
C19_MateStalemateCheckActive ==
    (last_call.op = "make_move" /\ last_call.ret /\ DrawByPrecedence = "")
      => /\ (game_state = "checkmate") <=> (~SideHasMove /\ SideInCheck)
         /\ (game_state = "stalemate") <=> (~SideHasMove /\ ~SideInCheck)
         /\ (game_state = "check") <=> (SideHasMove /\ SideInCheck)
         /\ (game_state = "active") <=> (SideHasMove /\ ~SideInCheck)

\* C19 witness: 10.Qe6 has left Black, not in check, without a move, and no
\* draw rule applies.
C19_Witness ==
    /\ last_call.op = "make_move" /\ last_call.ret
    /\ DrawByPrecedence = ""
    /\ ~SideHasMove /\ ~SideInCheck
    /\ game_state = "stalemate"

\* The count the position history holds for the position of G.
CountOf(G) == HistoryCount(G.position_history, _get_position_hash(G))

\* An undo leaves the halfmove clock and every count of the position history
\* as they were.
UndoKeepsCounts ==
    last_call'.op = "undo"
      => /\ halfmove_clock' = halfmove_clock
         /\ position_history' = position_history

\* The move is applied once more: the clock and the count of the position it
\* leaves are one higher than after its last application, that is, they
\* equal the number of applications, while the history holds the one move.
ApplicationCounts ==
    (last_call'.op = "make_move" /\ last_call'.ret)
      => /\ made' = made + 1
         /\ halfmove_clock' = halfmove_clock + 1
         /\ halfmove_clock' = made'
         /\ HistoryCount(position_history', _get_position_hash(Game'))
              = made'
         /\ Len(move_history') = 1
         /\ made' = 3 => game_state' = "draw by threefold repetition"
         /\ made' >= 100 => game_state' = "draw by 50-move rule"

\* C20: undo_last_move leaves the halfmove clock and every repetition count
\* unchanged; so a knight's first move, applied and undone over and over
\* from the initial position, raises the clock and the count of the
\* position it leaves by one each time: the third application reports the
\* repetition draw although the history holds the position once, and the
\* hundredth the fifty-move draw.
C20_UndoKeepsClockAndCounts ==
    [][UndoKeepsCounts /\ ApplicationCounts]_vars

\* C20 witness: the move has been applied a hundred times and undone
\* ninety-nine times; the history holds it once and the status is the
\* fifty-move draw.
C20_Witness ==
    /\ last_call.op = "make_move" /\ last_call.ret
    /\ made = 100
    /\ Len(move_history) = 1
    /\ CountOf(Game) = 100
    /\ game_state = "draw by 50-move rule"

\* The pseudo-legal destinations of the piece on s without the two castling
\* proposals of a king.
MovesWithoutCastling(b, s, history) ==
    { e \in get_moves(b, s, history) :
        ~(/\ get_piece_at(b, s).name = "K"
          /\ e[1] = s[1]
          /\ Abs(e[2] - s[2]) = 2) }

\* Some piece of that side has the square among those destinations.
AttackedWithoutCastling(b, history, coords, by_player_is_white) ==
    \E s \in Squares :
        /\ get_piece_at(b, s) # None
        /\ get_piece_at(b, s).is_player1 = by_player_is_white
        /\ coords \in MovesWithoutCastling(b, s, history)

\* The king of the side stands on such a square.
KingAttackedWithoutCastling(b, history, player_is_white) ==
    LET king_pos == _find_piece_by_type(b, "K", player_is_white)
    IN  /\ king_pos # NoCoords
        /\ AttackedWithoutCastling(b, history, king_pos, ~player_is_white)

\* The squares the king of the side to move crosses and reaches in castling.
CastlingPath ==
    LET king_pos == _find_piece_by_type(board, "K", current_player_index = 0)
    IN  IF king_pos = NoCoords THEN {}
        ELSE { <<king_pos[1], c>> : c \in {2, 3, 5, 6} }

\* C21: a side is reported in check exactly when its king's square is among
\* the pseudo-legal destinations, castling proposals excluded, of an enemy
\* piece: on the board as it stands, on the board of every king-safety
\* simulation of a candidate move of the side to move, and in the
\* attacked-square test of the squares of castling.
C21_CheckIgnoresCastlingProposals ==
    /\ \A w \in BOOLEAN :
          is_in_check(board, move_history, w)
            <=> KingAttackedWithoutCastling(board, move_history, w)
    /\ \A s \in Squares :
          (/\ get_piece_at(board, s) # None
           /\ get_piece_at(board, s).is_player1 = (current_player_index = 0))
          => \A e \in PseudoLegalMoves(Game, s) \cap Squares :
                _move_results_in_check(Game, s, e)
                  <=> KingAttackedWithoutCastling(
                          SimulatedBoard(board, s, e), move_history,
                          current_player_index = 0)
    /\ \A c \in CastlingPath :
          _is_square_attacked(board, move_history, c,
                              current_player_index # 0)
            <=> AttackedWithoutCastling(board, move_history, c,
                                        current_player_index # 0)

\* The last call was one of the two queries.
Queried == last_call.op \in {"get_legal_moves_for_piece", "is_in_check"}

\* Every king-safety simulation of a candidate of a piece of the side to
\* move leaves the origin and the destination as it found them.
SimulationsRestore ==
    \A s \in Squares :
        (/\ get_piece_at(board, s) # None
         /\ get_piece_at(board, s).is_player1 = (current_player_index = 0))
        => \A e \in PseudoLegalMoves(Game, s) :
              /\ get_piece_at(RestoredBoard(board, s, e), s)
                   = get_piece_at(board, s)
              /\ get_piece_at(RestoredBoard(board, s, e), e)
                   = get_piece_at(board, e)

\* C22: get_legal_moves_for_piece and is_in_check change nothing: after the
\* call the board with every has_moved flag, the move history, the captured
\* lists, the side to move, the halfmove clock, the repetition counts and
\* the status are as before; every king-safety simulation restores the
\* origin and the destination.
C22_QueriesArePure ==
    [][/\ Queried' => UNCHANGED engine_vars
       /\ SimulationsRestore]_vars

\* C22 witness: the legal moves of a piece have been asked for that has a
\* candidate whose destination holds a piece, which the simulation displaces
\* and puts back.
C22_Witness ==
    /\ last_call.op = "get_legal_moves_for_piece"
    /\ \E e \in PseudoLegalMoves(Game, last_call.start_coords) :
          get_piece_at(board, e) # None

\* A make_move call returns True in this step.
MoveMade == last_call'.op = "make_move" /\ last_call'.ret

\* C23: a successful make_move sets the halfmove clock to 0 when the piece
\* moved is a pawn or the destination holds a piece (an en-passant capture
\* being a pawn's move), and to its value plus one otherwise; a rejected
\* make_move, undo_last_move, resign and offer_draw leave it as it is.
C23_HalfmoveClockRule ==
    [][IF MoveMade
       THEN halfmove_clock' =
              IF \/ get_piece_at(board, last_call'.start_coords).name = "P"
                 \/ get_piece_at(board, last_call'.end_coords) # None
              THEN 0 ELSE halfmove_clock + 1
       ELSE halfmove_clock' = halfmove_clock]_vars

\* C23 witness: a piece that is not a pawn has just captured and the clock
\* is 0.
C23_Witness ==
    /\ last_call.op = "make_move" /\ last_call.ret
    /\ move_history # <<>>
    /\ move_history[Len(move_history)].piece_moved.name # "P"
    /\ move_history[Len(move_history)].piece_captured # None
    /\ Len(move_history) > 4
    /\ halfmove_clock = 0

\* The last entry of the move history is a pawn's move of two ranks.
LastEntryIsDoubleStep ==
    /\ move_history # <<>>
    /\ move_history[Len(move_history)].piece_moved.name = "P"
    /\ Abs(move_history[Len(move_history)].end_coords[1]
             - move_history[Len(move_history)].start_coords[1]) = 2

\* The square behind the pawn of the last entry: on its file, on the third
\* rank for a white pawn and on the sixth for a black one.
SquarePassedOver ==
    LET last_move == move_history[Len(move_history)]
    IN  FileLetter(last_move.end_coords[2])
          \o (IF last_move.piece_moved.is_player1 THEN "3" ELSE "6")

\* C24: after any sequence of moves and undos the en-passant field of
\* to_fen is the square passed over when the last entry of the move history
\* is a pawn's move of two ranks, and "-" otherwise; after an undo it goes
\* by the entry that is then the last.
C24_FenEnPassantField ==
    FenFields(Game).en_passant_target
      = IF LastEntryIsDoubleStep THEN SquarePassedOver ELSE "-"

\* C24 witness: a move has been undone, the entry before it is a pawn's
\* double step, and the field names the square behind that pawn.
C24_Witness ==
    /\ last_call.op = "undo"
    /\ LastEntryIsDoubleStep
    /\ FenFields(Game).en_passant_target = SquarePassedOver

\* The list without its last element.
Front(list) == SubSeq(list, 1, Len(list) - 1)

\* The move made in this step captured a piece: it goes to the end of the
\* list of the side that moved, and the other list is as before.
CaptureGoesToCapturer ==
    LET move == move_history'[Len(move_history')]
    IN  (MoveMade /\ move.piece_captured # None)
          => IF move.piece_moved.is_player1
             THEN /\ white_captured' = Append(white_captured,
                                              move.piece_captured)
                  /\ black_captured' = black_captured
             ELSE /\ black_captured' = Append(black_captured,
                                              move.piece_captured)
                  /\ white_captured' = white_captured

\* The move undone in this step had captured a piece: it is taken off the
\* end of the list of the side that had moved.
UndoTakesFromCapturer ==
    LET move == move_history[Len(move_history)]
    IN  (/\ last_call'.op = "undo"
         /\ move_history # <<>>
         /\ move.piece_captured # None)
          => IF move.piece_moved.is_player1
             THEN /\ white_captured' = Front(white_captured)
                  /\ black_captured' = black_captured
             ELSE /\ black_captured' = Front(black_captured)
                  /\ white_captured' = white_captured

\* C25: a captured piece is appended to the captured list of the side that
\* captured it, white_captured holding what White has captured and
\* black_captured what Black has captured, and to no other list; an undo of
\* the capture removes it from that list.
C25_CapturedListOfCapturer ==
    [][CaptureGoesToCapturer /\ UndoTakesFromCapturer]_vars

\* A worker thread is alive, or its reply waits to be taken by
\* _process_ai_result.
InFlight == ai_thread # NoThread \/ ai_move_result # PyNone

\* While a computation is in flight the Game is as it was, until the step
\* of _process_ai_result that takes the reply.
EngineQuietInFlight ==
    InFlight => \/ UNCHANGED <<engine_vars, last_call>>
                \/ ReplyProcessed

\* A worker thread is started only when none is alive and no reply waits.
OneWorkerAtATime ==
    (ai_thread'.pc = "started" /\ ai_thread.pc # "started") => ~InFlight

\* C26: from the start of a worker thread until _process_ai_result takes
\* its reply, no make_move, undo_last_move, resign, offer_draw or new-game
\* reset is executed on the Game, and no second worker thread is started;
\* the position the worker reads is the position of the Game.
C26_EngineQuietWhileAiThinks ==
    [][/\ EngineQuietInFlight
       /\ OneWorkerAtATime
       /\ ai_thread'.pc = "asked" => ai_thread'.fen = to_fen(Game')]_vars

\* C26 witness: against a human opponent who has moved, the worker has read
\* the position and its reply has not been delivered yet.
C26_Witness ==
    /\ ai_thread.pc = "asked"
    /\ ai_is_thinking
    /\ move_history # <<>>
    /\ "human" \in {white_player, black_player}

\* White is to move exactly when the history holds an even number of moves.
TurnFollowsHistory == (current_player_index = 0) <=> (Len(move_history) % 2 = 0)

\* The history grows by one entry at the tail in a successful make_move,
\* loses its tail entry in an undo, and is otherwise as it was.
HistoryStep ==
    IF MoveMade
    THEN /\ Len(move_history') = Len(move_history) + 1
         /\ Front(move_history') = move_history
    ELSE IF last_call'.op = "undo" /\ move_history # <<>>
    THEN move_history' = Front(move_history)
    ELSE move_history' = move_history

\* C27: whatever make_move calls, accepted or rejected, undos, resignations
\* and draw offers are made, White is to move exactly when the move history
\* has even length; a successful make_move appends one entry to the
\* history, an undo on a non-empty history removes the last entry, and
\* nothing else changes the history.
C27_TurnAndHistory ==
    [][TurnFollowsHistory /\ TurnFollowsHistory' /\ HistoryStep]_vars

\* C27 witness: the second of two moves has been undone; one entry is left
\* and Black is to move.
C27_Witness ==
    /\ last_call.op = "undo"
    /\ made = 2
    /\ Len(move_history) = 1
    /\ current_player_index = 1

\* The legal moves of the pieces of the side to move, as pairs of squares.
LegalMovesOfSide ==
    { <<s, e>> \in Squares \X Squares :
        /\ OwnPieceAt(Game, s)
        /\ e \in get_legal_moves_for_piece(Game, s) }

\* C28: no destination among the legal moves of a piece holds a piece of
\* the same colour; and the initial position gives White its twenty moves,
\* sixteen of pawns and four of knights, and none of the king.
C28_NoMoveOntoOwnPiece ==
    /\ \A m \in LegalMovesOfSide :
          \/ get_piece_at(board, m[2]) = None
          \/ get_piece_at(board, m[2]).is_player1
               # get_piece_at(board, m[1]).is_player1
    /\ Layout(Game) = Layout(NewGame)
         => /\ Cardinality(LegalMovesOfSide) = 20
            /\ \A m \in LegalMovesOfSide :
                  get_piece_at(board, m[1]).name \in {"P", "N"}

\* The pieces on the board and in the two captured lists.
Material(b, wc, bc) == PieceCount(b) + Len(wc) + Len(bc)

\* C29: through engine-legal moves and undos the pieces on the board and in
\* the two captured lists number 32; a move takes a piece off the board
\* only when it records it as its captured piece, and then it takes that one
\* piece, a promoted pawn being replaced by the promoted piece.
C29_MaterialIsConserved ==
    [][/\ Material(board', white_captured', black_captured') = 32
       /\ MoveMade =>
            PieceCount(board')
              = PieceCount(board)
                  - (IF move_history'[Len(move_history')].piece_captured
                          # None
                     THEN 1 ELSE 0)]_vars

\* The castling destinations among the legal moves of the piece on s: the
\* squares two files to either side on its rank.
CastlingDestinations(s) ==
    { e \in get_legal_moves_for_piece(Game, s) :
        e[1] = s[1] /\ Abs(e[2] - s[2]) = 2 }

\* C30: a king whose has_moved flag is set is never again given a castling
\* destination by get_legal_moves_for_piece, not even back on its home
\* square next to a rook that has not moved, with the squares between them
\* empty and unattacked.
C30_MovedKingNeverCastles ==
    \A s \in Squares :
        (/\ OwnPieceAt(Game, s)
         /\ get_piece_at(board, s).name = "K"
         /\ get_piece_at(board, s).has_moved)
        => CastlingDestinations(s) = {}

\* C31: every AI move computation that is started ends with the thinking
\* flag cleared, whatever the worker returns: a legal move, an illegal
\* move, a string that does not parse, or None.
C31_ThinkingEventuallyCleared == ai_is_thinking ~> ~ai_is_thinking

\* It is the turn of an AI player, nothing is being computed, the game is
\* not over and the main loop is running.
AiTurnIdle ==
    /\ ~crashed
    /\ current_player_object # "human"
    /\ ~ai_is_thinking
    /\ ~InFlight
    /\ game_state \in {"active", "check"}
    /\ made < MaxAiMoves

\* C32: when it is the turn of an AI player, no computation is in flight and
\* the status is active or check, a computation is eventually started; an
\* AI player in check is asked for a move.
C32_AiTurnEventuallyStarts == AiTurnIdle ~> ai_is_thinking

====
